---- MODULE Spec2Model ----
(***************************************************************************)
(* Wishlist API: the login rate limiter, the token codec, the auth         *)
(* service and the error envelope of the request pipeline.                 *)
(*                                                                         *)
(* Time is wall-clock seconds (time.time(), datetime.now()) as an integer. *)
(* The module-level defaultdicts of the limiter are total functions over   *)
(* the client keys: a missing key reads as its default ([] or 0).          *)
(***************************************************************************)
EXTENDS Integers, Sequences, FiniteSets, TLC

VARIABLES
    now,              \* wall clock, seconds
    login_attempts,   \* _global_rate_limiter_state['login_attempts']
    failed_attempts,  \* _global_rate_limiter_state['failed_attempts']
    blocked_ips,      \* _global_rate_limiter_state['blocked_ips']
    blocked_until,    \* _global_rate_limiter_state['blocked_until'] (a dict)
    users,            \* the users table: id -> row
    last,             \* the last operation on the limiter and its outcome
    tasks,            \* coroutines of the event loop: position and locals
    running,          \* the coroutine that holds the event loop, or 0
    recorded,         \* per IP: increments made since the counter was last 0
    issued,           \* the tokens create_access_token has returned
    checked,          \* the last token presented and what the codec answered
    uuid_draws,       \* how many times uuid.uuid4() has been called
    response,         \* the last HTTP exchange: the request and its response
    wishes,           \* the wishes table: id -> row
    validated,        \* the last value given to a field validator, and the result
    report            \* the last error rendered: its log lines and response texts

limiterVars == <<login_attempts, failed_attempts, blocked_ips, blocked_until>>
loopVars == <<tasks, running, recorded>>
\* what the limiter's own operations never write
offLimiter ==
    <<users, tasks, running, recorded, issued, checked, uuid_draws, response,
      wishes, validated, report>>
\* what neither the limiter nor the user table is
tokenVars == <<issued, checked, uuid_draws, response, wishes, validated, report>>
httpVars == <<uuid_draws, response>>
\* what the request pipeline never writes
offHttp == <<validated, report>>
\* what the token codec never writes
offToken == <<uuid_draws, response, wishes, validated, report>>

----------------------------------------------------------------------------
(* Bounds of the model *)

MaxWindow == 3        \* longest attempt list explored
MaxFailed == 5        \* largest failed_attempts value explored
NTasks == 3           \* coroutines in flight at once
MaxIssued == 2        \* tokens issued in one run
MaxRequests == 4      \* HTTP requests served in one run
MaxWishId == 3        \* largest wish id handed out
MaxPieces == 2        \* pieces of an error message, fragments of a field value
MaxTerm == 3          \* characters of a search term

\* the clock readings explored: the steps between them cover 30, 60 and
\* 900 seconds, and 870 and 930 on either side of the latter
Times == {0, 30, 60, 930}

(* Program constants *)

WINDOW_SECONDS == 60
BLOCK_SECONDS == 900
BLOCK_THRESHOLD == 5
max_failures == 3
PASSWORD_LIMIT == 72
\* schemas/user.py: the password lengths UserLogin and UserUpdate accept
PASSWORD_MIN == 8
PASSWORD_MAX == 128
ACCESS_TOKEN_EXPIRE_MINUTES == 30
TITLE_MAX == 200
\* schemas/wish.py: the bounds of description and price
DESCRIPTION_MAX == 5000
PRICE_MAX_DIGITS == 12
PRICE_DECIMAL_PLACES == 2

None == "None"
IPs == {"ip1", "ip2"}

----------------------------------------------------------------------------
(* Requests as the limiter sees them *)

LoginPaths == {"/api/v1/auth/login", "/auth/login"}

\* header X-Forwarded-For is a comma separated list (<<>>: header absent),
\* X-Real-IP one address or absent, client_host the socket peer
Request(method, path, forwarded_for, real_ip, client_host) ==
    [method |-> method, path |-> path, forwarded_for |-> forwarded_for,
     real_ip |-> real_ip, client_host |-> client_host]

LoginRequests ==
    { Request("POST", "/api/v1/auth/login", <<>>, None, "ip1"),
      Request("POST", "/auth/login", <<"ip1", "ip2">>, "ip2", "ip2"),
      Request("POST", "/api/v1/auth/login", <<>>, "ip2", "ip1") }

_get_client_ip(request) ==
    IF request.forwarded_for # <<>> THEN Head(request.forwarded_for)
    ELSE IF request.real_ip # None THEN request.real_ip
    ELSE request.client_host

\* mutant of IsLoginPost: the method is not looked at
IsLoginPost_any_method(request) ==
    request.path \in LoginPaths

IsLoginPost(request) ==
    request.method = "POST" /\ request.path \in LoginPaths

----------------------------------------------------------------------------
(* Passwords and the user table *)

Truncate(password) ==
    IF Len(password) > PASSWORD_LIMIT
    THEN SubSeq(password, 1, PASSWORD_LIMIT) ELSE password

hash_password(password) ==
    [scheme |-> "argon2id", secret |-> Truncate(password)]

\* a stored hash string is [scheme, secret]: an Argon2id hash or a legacy
\* pbkdf2_sha256 hash of the secret, or a string that is neither: one that
\* starts like an Argon2id hash and cannot be decoded ("argon2id_damaged"),
\* or any other text ("unidentified")
LegacyHash(password) == [scheme |-> "pbkdf2_sha256", secret |-> password]
CorruptHashes ==
    { [scheme |-> "argon2id_damaged", secret |-> <<>>],
      [scheme |-> "unidentified", secret |-> <<>>] }

\* ph.verify(hash, password): "ok" or the exception raised. A string that
\* is no Argon2 hash raises InvalidHash; one that starts like an Argon2id hash
\* and cannot be decoded raises VerificationError
ph_verify(hash, password) ==
    IF hash.scheme = "argon2id"
    THEN (IF hash.secret = password THEN "ok" ELSE "VerifyMismatchError")
    ELSE IF hash.scheme = "argon2id_damaged" THEN "VerificationError"
    ELSE "InvalidHash"

\* CryptContext(schemes=["pbkdf2_sha256"]).verify(secret, hash): "True",
\* "False", or the exception raised for a hash of no known scheme
pwd_context_verify(secret, hash) ==
    IF hash.scheme = "pbkdf2_sha256"
    THEN (IF hash.secret = secret THEN "True" ELSE "False")
    ELSE "UnknownHashError"

\* mutant of verify_password: the password is cut as hash_password cuts it
verify_password_truncating(plain_password, hashed_password) ==
    LET verdict == ph_verify(hashed_password, Truncate(plain_password))
        legacy == pwd_context_verify(plain_password, hashed_password)
    IN IF verdict = "ok" THEN [raised |-> "", value |-> TRUE]
       ELSE IF verdict = "VerifyMismatchError" THEN [raised |-> "", value |-> FALSE]
       ELSE IF verdict = "VerificationError" THEN [raised |-> verdict, value |-> FALSE]
       ELSE IF legacy \in {"True", "False"}
       THEN [raised |-> "", value |-> legacy = "True"]
       ELSE [raised |-> legacy, value |-> FALSE]

\* verify_password: the value returned, or the exception that leaves it
\* (raised is "" when it returns)
verify_password(plain_password, hashed_password) ==
    LET verdict == ph_verify(hashed_password, plain_password)
        legacy == pwd_context_verify(plain_password, hashed_password)
    IN IF verdict = "ok" THEN [raised |-> "", value |-> TRUE]
       ELSE IF verdict = "VerifyMismatchError" THEN [raised |-> "", value |-> FALSE]
       ELSE IF verdict = "VerificationError" THEN [raised |-> verdict, value |-> FALSE]
       ELSE IF legacy \in {"True", "False"}
       THEN [raised |-> "", value |-> legacy = "True"]
       ELSE [raised |-> legacy, value |-> FALSE]

\* the login bodies tried: right password, wrong password, unknown user
Credentials ==
    { [username |-> "alice", password |-> <<"p", "1">>],
      [username |-> "alice", password |-> <<"p", "2">>],
      [username |-> "nosuchuser", password |-> <<"p", "1">>] }

InitUsers ==
    1 :> [id |-> 1, username |-> "alice", email |-> "alice@x",
          hashed_password |-> hash_password(<<"p", "1">>)]
    @@
    2 :> [id |-> 2, username |-> "bob", email |-> "bob@x",
          hashed_password |-> hash_password(<<"p", "2">>)]

\* .first() of the query: no row ({}) or one row ({row})
get_by_username_or_email(table, username_or_email) ==
    LET hits == { i \in DOMAIN table :
                    \/ table[i].username = username_or_email
                    \/ table[i].email = username_or_email }
    IN IF hits = {} THEN {}
       ELSE {table[CHOOSE i \in hits : \A j \in hits : i <= j]}

\* the row of a query result that is not empty
Row(found) == CHOOSE row \in found : TRUE

----------------------------------------------------------------------------
(* AuthService.login_user and the login route *)

ApiError(code, message, status) ==
    [code |-> code, message |-> message, status |-> status]

UnauthorizedError(message) == ApiError("unauthorized", message, 401)
NotFoundError(message) == ApiError("not_found", message, 404)

Ok == ApiError("ok", "", 200)
\* an exception that is no ApiError, on its way out of the service
Uncaught(text) == ApiError("exception", text, 500)

\* mutant of login_user: an unknown username gets a message of its own
login_user_tells(table, username, password) ==
    LET user == get_by_username_or_email(table, username)
    IN IF user = {}
       THEN UnauthorizedError("User not found")
       ELSE IF verify_password(password, Row(user).hashed_password).raised # ""
       THEN Uncaught(verify_password(password, Row(user).hashed_password).raised)
       ELSE IF ~ verify_password(password, Row(user).hashed_password).value
       THEN UnauthorizedError("Invalid username or password")
       ELSE Ok

\* the error login_user raises, or Ok when it returns a token
login_user(table, username, password) ==
    LET user == get_by_username_or_email(table, username)
    IN IF user = {}
       THEN UnauthorizedError("Invalid username or password")
       ELSE IF verify_password(password, Row(user).hashed_password).raised # ""
       THEN Uncaught(verify_password(password, Row(user).hashed_password).raised)
       ELSE IF ~ verify_password(password, Row(user).hashed_password).value
       THEN UnauthorizedError("Invalid username or password")
       ELSE Ok

\* routers/auth.py login: UnauthorizedError is re-raised with the same text,
\* the limiter is not told about the outcome
login(table, username, password) ==
    LET result == login_user(table, username, password)
    IN IF result.code = "unauthorized"
       THEN UnauthorizedError(result.message) ELSE result

----------------------------------------------------------------------------
(* core/auth.py: the token codec.  A Python str is a sequence of characters, *)
(* an Optional value is <<>> (None) or <<v>>.                                 *)

SECRET_KEY == "current-secret"
ALGORITHM == "HS256"

Digit == <<"0", "1", "2", "3", "4", "5", "6", "7", "8", "9">>

RECURSIVE str(_)
\* str(n) for an int n >= 0
str(n) == IF n < 10 THEN <<Digit[n + 1]>> ELSE str(n \div 10) \o <<Digit[(n % 10) + 1]>>

DigitValue(c) == (CHOOSE i \in 1..10 : Digit[i] = c) - 1

IsNumeric(s) == Len(s) > 0 /\ \A i \in 1..Len(s) : \E j \in 1..10 : Digit[j] = s[i]

RECURSIVE int(_)
\* int(s) for a str of decimal digits (anything else: ValueError)
int(s) == IF Len(s) = 1 THEN DigitValue(s[1])
          ELSE 10 * int(SubSeq(s, 1, Len(s) - 1)) + DigitValue(s[Len(s)])

\* bool(expires_delta): None and timedelta(0) are falsy
Truthy(expires_delta) == expires_delta # <<>> /\ expires_delta[1] # 0

\* jwt.encode: the claims, signed with key under algorithm; "ghost" is not
\* in the token, it remembers the call that made it
Encode(data, exp, key, algorithm, ghost) ==
    [sub |-> data.sub, username |-> data.username, exp |-> exp, key |-> key,
     alg |-> algorithm, ghost |-> ghost]

create_access_token(data, expires_delta, t, ghost) ==
    LET expire == IF Truthy(expires_delta)
                  THEN t + expires_delta[1]
                  ELSE t + ACCESS_TOKEN_EXPIRE_MINUTES * 60
    IN Encode(data, expire, SECRET_KEY, ALGORITHM, ghost)

\* jwt.decode(token, key, algorithms): the algorithm must be listed, the
\* signature must be the key's, and exp must not lie before the clock
Decodes(token, key, algorithms, t) ==
    /\ token.alg \in algorithms
    /\ token.key = key
    /\ ~ (token.exp < t)

\* mutant of verify_token: exp is not looked at
verify_token_ignores_exp(token, t) ==
    IF token.alg = ALGORITHM /\ token.key = SECRET_KEY
    THEN Ok ELSE UnauthorizedError("Invalid token")

\* Ok (the payload is returned) or the error raised
verify_token(token, t) ==
    IF Decodes(token, SECRET_KEY, {ALGORITHM}, t)
    THEN Ok ELSE UnauthorizedError("Invalid token")

\* [error |-> Ok, user_id |-> n] or the error raised
get_user_id_from_token(token, t) ==
    LET verdict == verify_token(token, t)
    IN IF verdict # Ok THEN [error |-> verdict, user_id |-> 0]
       ELSE IF token.sub = <<>>
       THEN [error |-> UnauthorizedError("Token does not contain user ID"),
             user_id |-> 0]
       ELSE IF ~ IsNumeric(token.sub[1])
       THEN [error |-> UnauthorizedError("Invalid user ID in token"), user_id |-> 0]
       ELSE [error |-> Ok, user_id |-> int(token.sub[1])]

NotChecked ==
    [op |-> "none", token |-> <<>>, at |-> 0, verify |-> Ok,
     resolve |-> [error |-> Ok, user_id |-> 0]]

\* the ids a token is issued for, and the lifetimes asked for
TokenIds == {1, 42}
Lifetimes == {<<>>, <<0>>, <<30>>, <<-30>>, <<1800>>}
TokenTimes == {30, 1800, 1830, 1860}

\* the payloads create_access_token is called with: the login payload, one
\* without sub and one whose sub is not a number
Payloads(id) ==
    { [sub |-> <<str(id)>>, username |-> "u"],
      [sub |-> <<>>, username |-> "u"],
      [sub |-> << <<"x">> >>, username |-> "u"] }

\* tokens nobody issued: signed with another key, or unsigned with alg none
Forgeries ==
    { Encode([sub |-> <<str(id)>>, username |-> "u"], 1860, k[1], k[2],
             [id |-> id, iat |-> 0, ttl |-> <<>>, genuine |-> FALSE]) :
        id \in TokenIds, k \in {<<"other-secret", "HS256">>, <<"", "none">>} }

\* settings.SECRET_KEY_PREVIOUS, here configured (<<>>: not set), and the
\* tokens the service signed before the rotation, when it was SECRET_KEY
SECRET_KEY_PREVIOUS == <<"previous-secret">>
Retired ==
    { Encode([sub |-> <<str(id)>>, username |-> "u"], exp, SECRET_KEY_PREVIOUS[1],
             ALGORITHM, [id |-> id, iat |-> 0, ttl |-> <<>>, genuine |-> TRUE]) :
        id \in TokenIds, exp \in {30, 1800} }

Issue(id, data, expires_delta) ==
    LET ghost == [id |-> id, iat |-> now, ttl |-> expires_delta, genuine |-> TRUE]
    IN /\ Cardinality(issued) < MaxIssued
       /\ issued' = issued \cup {create_access_token(data, expires_delta, now, ghost)}
       /\ checked' = [NotChecked EXCEPT !.op = "issue"]
       /\ UNCHANGED <<now, limiterVars, users, last, loopVars, offToken>>

Present(token) ==
    /\ checked' = [op |-> "check", token |-> <<token>>, at |-> now,
                   verify |-> verify_token(token, now),
                   resolve |-> get_user_id_from_token(token, now)]
    /\ UNCHANGED <<now, limiterVars, users, last, loopVars, issued, offToken>>

----------------------------------------------------------------------------
(* RateLimitingMiddleware *)

DictGet(d, k, default) == IF k \in DOMAIN d THEN d[k] ELSE default
DictPop(d, k) == [x \in DOMAIN d \ {k} |-> d[x]]
DictSet(d, k, v) == [x \in DOMAIN d \cup {k} |-> IF x = k THEN v ELSE d[x]]

\* mutant of _cleanup_old_attempts: an attempt of exactly 60 s ago is kept
_cleanup_old_attempts_inclusive(attempts, current_time) ==
    SelectSeq(attempts, LAMBDA timestamp : current_time - timestamp <= WINDOW_SECONDS)

_cleanup_old_attempts(attempts, current_time) ==
    SelectSeq(attempts, LAMBDA timestamp : current_time - timestamp < WINDOW_SECONDS)

\* mutant of _is_ip_blocked: the block ends one clock reading early
_is_ip_blocked_early(bips, buntil, client_ip, t) ==
    IF client_ip \in bips
    THEN IF DictGet(buntil, client_ip, 0) <= t
         THEN [blocked |-> FALSE, blocked_ips |-> bips \ {client_ip},
               blocked_until |-> DictPop(buntil, client_ip)]
         ELSE [blocked |-> TRUE, blocked_ips |-> bips, blocked_until |-> buntil]
    ELSE [blocked |-> FALSE, blocked_ips |-> bips, blocked_until |-> buntil]

\* result of the block check and the block state it leaves behind
_is_ip_blocked(bips, buntil, client_ip, t) ==
    IF client_ip \in bips
    THEN IF DictGet(buntil, client_ip, 0) < t
         THEN [blocked |-> FALSE, blocked_ips |-> bips \ {client_ip},
               blocked_until |-> DictPop(buntil, client_ip)]
         ELSE [blocked |-> TRUE, blocked_ips |-> bips, blocked_until |-> buntil]
    ELSE [blocked |-> FALSE, blocked_ips |-> bips, blocked_until |-> buntil]

\* mutant of OverLimit: the limit is reached one attempt later
OverLimit_strict(attempts_in_window) == attempts_in_window > max_failures

OverLimit(attempts_in_window) == attempts_in_window >= max_failures

BlockedDetail ==
    "IP address is temporarily blocked due to too many failed attempts."

\* what an operation on the limiter leaves in "last"
Outcome(op, ip, was, status, detail, retry, handled, username, password) ==
    [op |-> op, ip |-> ip, was_blocked |-> was, status |-> status,
     detail |-> detail, retry_after |-> retry, handled |-> handled,
     username |-> username, password |-> password]

\* the outcome of a login POST that reached the handler, with the number of
\* attempts _cleanup_old_attempts dropped from the window on the way
Admitted(outcome, dropped) ==
    [f \in DOMAIN outcome \cup {"dropped"} |->
        IF f = "dropped" THEN dropped ELSE outcome[f]]

NoOutcome(op, ip, was_blocked) ==
    Outcome(op, ip, was_blocked, 0, "", None, FALSE, None, <<>>)

\* dispatch for a POST to a login path: the block check, the window, and
\* call_next, whose outcome is result
Limit(request, result, username, password) ==
    LET client_ip == _get_client_ip(request)
        chk == _is_ip_blocked(blocked_ips, blocked_until, client_ip, now)
        window == Append(_cleanup_old_attempts(login_attempts[client_ip], now), now)
        was == client_ip \in blocked_ips
    IN /\ IsLoginPost(request)
       /\ blocked_ips' = chk.blocked_ips
       /\ blocked_until' = chk.blocked_until
       /\ IF chk.blocked
          THEN /\ login_attempts' = login_attempts
               /\ last' = Outcome("login", client_ip, was, 429, BlockedDetail,
                                  "60", FALSE, username, password)
          ELSE /\ Len(window) <= MaxWindow
               /\ login_attempts' = [login_attempts EXCEPT ![client_ip] = window]
               /\ IF OverLimit(Len(window))
                  THEN last' = Outcome("login", client_ip, was, 429,
                                       "Too Many Requests", "60", FALSE,
                                       username, password)
                  ELSE last' = Admitted(
                                   Outcome("login", client_ip, was, result.status,
                                           result.message, None, TRUE,
                                           username, password),
                                   Len(login_attempts[client_ip]) + 1 - Len(window))

\* dispatch for a POST to a login path, followed by the login route
dispatch(request, username, password) ==
    /\ Limit(request, login(users, username, password), username, password)
    /\ UNCHANGED <<now, failed_attempts, offLimiter>>

\* requests that are not a POST to a login path, and what the router answers
\* to each (no credentials are sent)
OtherRequests ==
    { Request("GET", "/api/v1/auth/login", <<>>, None, "ip1"),
      Request("PUT", "/auth/login", <<>>, None, "ip1"),
      Request("POST", "/api/v1/auth/login/", <<>>, None, "ip1"),
      Request("POST", "/auth/login/", <<"ip2">>, None, "ip1"),
      Request("POST", "/api/v1/auth/refresh", <<>>, None, "ip1"),
      Request("POST", "/auth/refresh", <<>>, "ip2", "ip1") }

RouterStatus(request) ==
    IF request.path \in {"/api/v1/auth/login/", "/auth/login/"} THEN 307
    ELSE IF request.path \in {"/api/v1/auth/refresh", "/auth/refresh"} THEN 403
    ELSE IF request.path = "/api/v1/auth/login" THEN 405
    ELSE 404

\* dispatch for every other request: call_next, whose response or exception
\* goes back unchanged
dispatch_passes(request) ==
    LET client_ip == _get_client_ip(request)
    IN /\ ~ IsLoginPost(request)
       /\ last' = Outcome("pass", client_ip, client_ip \in blocked_ips,
                          RouterStatus(request), "", None, TRUE, None, <<>>)
       /\ UNCHANGED <<now, limiterVars, offLimiter>>

\* mutant of record_failed_attempt: the IP is blocked without an expiry time
record_failed_attempt_no_expiry(request) ==
    LET client_ip == _get_client_ip(request)
        count == failed_attempts[client_ip] + 1
    IN /\ count <= MaxFailed
       /\ failed_attempts' = [failed_attempts EXCEPT ![client_ip] = count]
       /\ IF count >= BLOCK_THRESHOLD
          THEN blocked_ips' = blocked_ips \cup {client_ip}
          ELSE UNCHANGED blocked_ips
       /\ UNCHANGED blocked_until
       /\ last' = NoOutcome("failed", client_ip, client_ip \in blocked_ips)
       /\ UNCHANGED <<now, login_attempts, offLimiter>>

record_failed_attempt(request) ==
    LET client_ip == _get_client_ip(request)
        count == failed_attempts[client_ip] + 1
    IN /\ count <= MaxFailed
       /\ failed_attempts' = [failed_attempts EXCEPT ![client_ip] = count]
       /\ IF count >= BLOCK_THRESHOLD
          THEN /\ blocked_ips' = blocked_ips \cup {client_ip}
               /\ blocked_until' = DictSet(blocked_until, client_ip, now + BLOCK_SECONDS)
          ELSE UNCHANGED <<blocked_ips, blocked_until>>
       /\ last' = NoOutcome("failed", client_ip, client_ip \in blocked_ips)
       /\ UNCHANGED <<now, login_attempts, offLimiter>>

\* mutant of record_successful_attempt: the expiry time is left behind
record_successful_attempt_keeps_expiry(request) ==
    LET client_ip == _get_client_ip(request)
    IN /\ failed_attempts' = [failed_attempts EXCEPT ![client_ip] = 0]
       /\ blocked_ips' = blocked_ips \ {client_ip}
       /\ last' = NoOutcome("success", client_ip, client_ip \in blocked_ips)
       /\ UNCHANGED <<now, login_attempts, blocked_until, offLimiter>>

record_successful_attempt(request) ==
    LET client_ip == _get_client_ip(request)
    IN /\ failed_attempts' = [failed_attempts EXCEPT ![client_ip] = 0]
       /\ IF client_ip \in blocked_ips
          THEN /\ blocked_ips' = blocked_ips \ {client_ip}
               /\ blocked_until' = DictPop(blocked_until, client_ip)
          ELSE UNCHANGED <<blocked_ips, blocked_until>>
       /\ last' = NoOutcome("success", client_ip, client_ip \in blocked_ips)
       /\ UNCHANGED <<now, login_attempts, offLimiter>>

clear_rate_limiter_state ==
    /\ login_attempts' = [i \in IPs |-> <<>>]
    /\ failed_attempts' = [i \in IPs |-> 0]
    /\ blocked_ips' = {}
    /\ blocked_until' = <<>>
    /\ last' = NoOutcome("clear", None, FALSE)
    /\ UNCHANGED <<now, offLimiter>>

\* the wall clock advances
Tick(t) ==
    /\ t > now
    /\ now' = t
    /\ last' = NoOutcome("tick", None, FALSE)
    /\ UNCHANGED <<limiterVars, offLimiter>>

----------------------------------------------------------------------------
(* Text: a Python str is the sequence of its characters *)

UpperCase ==
    <<"A", "B", "C", "D", "E", "F", "G", "H", "I", "J", "K", "L", "M",
      "N", "O", "P", "Q", "R", "S", "T", "U", "V", "W", "X", "Y", "Z">>
LowerCase ==
    <<"a", "b", "c", "d", "e", "f", "g", "h", "i", "j", "k", "l", "m",
      "n", "o", "p", "q", "r", "s", "t", "u", "v", "w", "x", "y", "z">>

\* str.lower(), character by character
lower(s) ==
    [i \in 1..Len(s) |->
        IF \E k \in 1..26 : UpperCase[k] = s[i]
        THEN LowerCase[CHOOSE k \in 1..26 : UpperCase[k] = s[i]]
        ELSE s[i]]

Whitespace == {" ", "\t", "\n"}

RECURSIVE lstrip(_)
lstrip(s) == IF s # <<>> /\ Head(s) \in Whitespace THEN lstrip(Tail(s)) ELSE s

RECURSIVE rstrip(_)
rstrip(s) ==
    IF s # <<>> /\ s[Len(s)] \in Whitespace
    THEN rstrip(SubSeq(s, 1, Len(s) - 1)) ELSE s

\* str.strip()
strip(s) == rstrip(lstrip(s))

\* pattern in s
Contains(pattern, s) ==
    \E i \in 0..(Len(s) - Len(pattern)) : SubSeq(s, i + 1, i + Len(pattern)) = pattern

RECURSIVE replace(_, _, _)
\* s.replace(old, new) for a one-character old
replace(s, old, new) ==
    IF s = <<>> THEN <<>>
    ELSE (IF Head(s) = old THEN new ELSE <<Head(s)>>) \o replace(Tail(s), old, new)

\* mutant of escape_like_pattern: the backslash is replaced last
escape_like_pattern_backslash_last(pattern) ==
    LET p1 == replace(pattern, "%", <<"\\", "%">>)
        p2 == replace(p1, "_", <<"\\", "_">>)
        p3 == replace(p2, "[", <<"\\", "[">>)
        p4 == replace(p3, "]", <<"\\", "]">>)
    IN replace(p4, "\\", <<"\\", "\\">>)

\* repositories/wish.py escape_like_pattern: five replacements in a row
escape_like_pattern(pattern) ==
    LET p1 == replace(pattern, "\\", <<"\\", "\\">>)
        p2 == replace(p1, "%", <<"\\", "%">>)
        p3 == replace(p2, "_", <<"\\", "_">>)
        p4 == replace(p3, "[", <<"\\", "[">>)
    IN replace(p4, "]", <<"\\", "]">>)

RECURSIVE Like(_, _)
\* the database's LIKE: % is any run of characters, _ any one character,
\* a backslash makes the character after it stand for itself
Like(pattern, s) ==
    IF pattern = <<>> THEN s = <<>>
    ELSE IF Head(pattern) = "%"
    THEN Like(Tail(pattern), s) \/ (s # <<>> /\ Like(pattern, Tail(s)))
    ELSE IF Head(pattern) = "_"
    THEN s # <<>> /\ Like(Tail(pattern), Tail(s))
    ELSE IF Head(pattern) = "\\" /\ Len(pattern) >= 2
    THEN s # <<>> /\ Head(s) = pattern[2] /\ Like(Tail(Tail(pattern)), Tail(s))
    ELSE s # <<>> /\ Head(s) = Head(pattern) /\ Like(Tail(pattern), Tail(s))

\* column.ilike(f"%{escaped_title}%") on one title
ilike(title, escaped_title) ==
    Like(<<"%">> \o lower(escaped_title) \o <<"%">>, lower(title))

dangerous_patterns ==
    { <<"<", "s", "c", "r", "i", "p", "t">>,
      <<"j", "a", "v", "a", "s", "c", "r", "i", "p", "t", ":">>,
      <<"o", "n", "e", "r", "r", "o", "r", "=">>,
      <<"o", "n", "c", "l", "i", "c", "k", "=">> }

\* mutant of sanitize_html: the value is not lower-cased before the scan
sanitize_html_case(v) ==
    IF v = <<>> THEN [error |-> FALSE, value |-> v]
    ELSE IF \E pattern \in dangerous_patterns : Contains(pattern, v[1])
    THEN [error |-> TRUE, value |-> <<>>]
    ELSE [error |-> FALSE, value |-> <<strip(v[1])>>]

\* WishBase.sanitize_html and WishUpdate.sanitize_html (the same body); v is
\* <<>> (None) or <<s>>; error: ValueError is raised
sanitize_html(v) ==
    IF v = <<>> THEN [error |-> FALSE, value |-> v]
    ELSE IF \E pattern \in dangerous_patterns : Contains(pattern, lower(v[1]))
    THEN [error |-> TRUE, value |-> <<>>]
    ELSE [error |-> FALSE, value |-> <<strip(v[1])>>]

\* the values of a title or description explored: None, and the strings
\* made of up to MaxPieces of these fragments
Fragments ==
    { <<" ">>, <<"\t">>, <<"a">>, <<"o", "n">>,
      <<"<", "s", "c", "r", "i", "p", "t">>, <<"<", "S", "C", "R", "I", "P", "T">>,
      <<"<", "s", "c", "r">>, <<"i", "p", "t", ">">>,
      <<"J", "a", "v", "a", "S", "c", "r", "i", "p", "t", ":">>,
      <<"o", "n", "e", "r", "r", "o", "r", "=">>,
      <<"c", "l", "i", "c", "k", "=">>, <<"E", "R", "R", "O", "R", " ", "=">> }

RECURSIVE Concat(_)
Concat(parts) == IF parts = <<>> THEN <<>> ELSE Head(parts) \o Concat(Tail(parts))

FieldValues ==
    {<<>>} \cup {<<Concat(parts)>> : parts \in UNION {[1..n -> Fragments] : n \in 0..MaxPieces}}

NotValidated == [op |-> "none", input |-> <<>>, error |-> FALSE, value |-> <<>>]

NoReport == [op |-> "none", text |-> <<>>, log |-> <<>>, detail |-> <<>>]

\* the search terms explored: every string of up to MaxTerm of these
\* characters
LikeAlphabet == {"\\", "%", "_", "[", "]", "a"}
SearchStrings == UNION {[1..n -> LikeAlphabet] : n \in 0..MaxTerm}

\* search_by_title escapes the term it is given
\* a password of n characters: a letter, a digit, then letters, as
\* UserUpdate.validate_password asks of the lengths it accepts; the probe is
\* the password itself or the password followed by "x"
Password(n) == [i \in 1..n |-> IF i = 2 THEN "1" ELSE "a"]
Passwords == {Password(n) : n \in 1..(PASSWORD_MAX + 1)}
Probes(p) == {p, p \o <<"x">>}

\* hash_password applied to the password drawn
Hash ==
    /\ validated.op = "password"
    /\ validated' = [op |-> "hash_password", input |-> validated.input,
                     error |-> FALSE,
                     value |-> <<hash_password(validated.input[1])>>]
    /\ UNCHANGED <<now, limiterVars, users, last, loopVars, issued, checked,
                   httpVars, wishes, report>>

\* the hash column of a row written before the service, or damaged since:
\* a legacy hash of the password, or a string that is no hash
Stored(hash) ==
    /\ validated.op = "password"
    /\ validated' = [op |-> "stored", input |-> validated.input,
                     error |-> FALSE, value |-> <<hash>>]
    /\ UNCHANGED <<now, limiterVars, users, last, loopVars, issued, checked,
                   httpVars, wishes, report>>

\* verify_password applied to the probe and the hash
Verify ==
    /\ validated.op \in {"hash_password", "stored"}
    /\ LET result == verify_password(validated.input[2], validated.value[1])
       IN validated' = [op |-> "verify_password",
                        input |-> validated.input \o <<validated.value[1]>>,
                        error |-> result.raised # "",
                        value |-> <<result.value>>]
    /\ UNCHANGED <<now, limiterVars, users, last, loopVars, issued, checked,
                   httpVars, wishes, report>>

Escape ==
    /\ validated.op = "term"
    /\ validated' = [op |-> "escape_like_pattern", input |-> validated.input,
                     error |-> FALSE,
                     value |-> <<escape_like_pattern(validated.input[1])>>]
    /\ UNCHANGED <<now, limiterVars, users, last, loopVars, issued, checked,
                   httpVars, wishes, report>>

\* the validator is run on the value a request holds
Validate ==
    /\ validated.op = "input"
    /\ validated' = [op |-> "sanitize_html", input |-> validated.input,
                     error |-> sanitize_html(validated.input).error,
                     value |-> sanitize_html(validated.input).value]
    /\ UNCHANGED <<now, limiterVars, users, last, loopVars, issued, checked,
                   httpVars, wishes, report>>

----------------------------------------------------------------------------
(* utils/pii_masking.py and the texts of an error. A text is a sequence of   *)
(* pieces: a plain string, or a record for a piece the masking patterns      *)
(* match: an e-mail address (local part and domain) or a JWT-shaped token.   *)

Email(local, domain) == [kind |-> "email", local |-> local, domain |-> domain]
JwtToken == [kind |-> "jwt", local |-> <<>>, domain |-> ""]
Plain(string) == [kind |-> "plain", local |-> <<>>, domain |-> string]
\* what mask_email returns: the characters kept, "***@" and the domain
Masked(kept, domain) == [kind |-> "masked_email", local |-> kept, domain |-> domain]

mask_email(email) ==
    IF Len(email.local) <= 1
    THEN Masked(email.local, email.domain)
    ELSE Masked(<<email.local[1]>>, email.domain)

mask_pii_in_string(text) ==
    [i \in 1..Len(text) |->
        CASE text[i].kind = "email" -> mask_email(text[i])
          [] text[i].kind = "jwt" -> Plain("***JWT_TOKEN***")
          [] OTHER -> text[i]]

\* the pieces of the messages explored, and the messages: up to MaxPieces
\* pieces each
Pieces ==
    { Plain("Invalid username or password"), Plain("parameters:"),
      Email(<<"b", "o", "b">>, "example.com"), Email(<<"a">>, "x.org"), JwtToken }
Messages == UNION {[1..n -> Pieces] : n \in 1..MaxPieces}

GenericText == <<Plain("Internal server error")>>

\* ErrorHandlerMiddleware.dispatch, except ApiError: the log line and the
\* detail / error.message of the response
render_api_error(message) ==
    /\ report' = [op |-> "ApiError", text |-> message,
                  log |-> <<<<Plain("API Error")>> \o mask_pii_in_string(message)>>,
                  detail |-> message]
    /\ UNCHANGED <<now, limiterVars, users, last, loopVars, issued, checked,
                   httpVars, wishes, validated>>

\* except HTTPException
render_http_exception(detail) ==
    /\ report' = [op |-> "HTTPException", text |-> detail,
                  log |-> <<<<Plain("HTTP Exception")>> \o mask_pii_in_string(detail)>>,
                  detail |-> detail]
    /\ UNCHANGED <<now, limiterVars, users, last, loopVars, issued, checked,
                   httpVars, wishes, validated>>

\* except Exception: logger.error(..., exc_info=True) writes the line and
\* the traceback, which ends with the text of the exception
render_unexpected(text, env) ==
    /\ report' = [op |-> "Exception", text |-> text,
                  log |-> << <<Plain("Unexpected error")>> \o mask_pii_in_string(text),
                             <<Plain("Traceback")>> \o text >>,
                  detail |-> IF env = "production" THEN GenericText ELSE text]
    /\ UNCHANGED <<now, limiterVars, users, last, loopVars, issued, checked,
                   httpVars, wishes, validated>>

\* main.py http_exception_handler / validation_exception_handler: nothing
\* is logged, str(exc.detail) / str(exc) goes into the response
handle_http_exception(detail) ==
    /\ report' = [op |-> "handler", text |-> detail, log |-> <<>>, detail |-> detail]
    /\ UNCHANGED <<now, limiterVars, users, last, loopVars, issued, checked,
                   httpVars, wishes, validated>>

----------------------------------------------------------------------------
(* The request pipeline of main.py, outermost first: ErrorHandlerMiddleware, *)
(* LoggingMiddleware, RateLimitingMiddleware, CORS, the exception handlers   *)
(* of the application, the router.                                           *)

ERROR_TYPE_BASE == "https://api.wishlist.com/errors/"
RFC7807_TYPE == "https://tools.ietf.org/html/rfc7807"

EnvelopeFields ==
    {"type", "title", "status", "detail", "error", "correlation_id", "timestamp"}

\* what the application under the middlewares ends with: a return value or
\* a raised exception of class kind
Exc(kind, status, code, detail, headers) ==
    [kind |-> kind, status |-> status, code |-> code, detail |-> detail,
     headers |-> headers]

Returned == Exc("return", 200, "ok", "", {})
\* an ApiError (core/exceptions.py) in flight
Raised(e) == Exc("ApiError", e.status, e.code, e.message, {})
\* fastapi.HTTPException, raised by handlers, dependencies and the limiter
HTTPException(status, detail, headers) ==
    Exc("HTTPException", status, "", detail, headers)
\* starlette's HTTPException, the base class, raised by the router itself
StarletteHTTPException(status, detail) ==
    Exc("StarletteHTTPException", status, "", detail, {})
RequestValidationError ==
    Exc("RequestValidationError", 422, "", "field required", {})
\* the same for a body with a key the schema forbids (extra='forbid')
ExtraForbidden ==
    Exc("RequestValidationError", 422, "", "Extra inputs are not permitted", {})
\* any other exception, here the SQLAlchemyError of a failed query
SQLAlchemyError == Exc("Exception", 500, "", "database is unavailable", {})

\* str(uuid.uuid4()): the n-th draw, taken never to repeat an earlier one
uuid4(n) == <<"u">> \o str(n)

_get_title_for_status(status) ==
    CASE status = 400 -> "Bad Request"
      [] status = 401 -> "Unauthorized"
      [] status = 403 -> "Forbidden"
      [] status = 404 -> "Not Found"
      [] status = 409 -> "Conflict"
      [] status = 422 -> "Unprocessable Entity"
      [] status = 429 -> "Too Many Requests"
      [] status = 500 -> "Internal Server Error"
      [] OTHER -> "Error"

\* a JSON body: the keys it has and their values; error holds the keys of
\* the nested object; a key that is absent reads as the empty value
Body(fields, type, title, status, detail, error, code, message, cid, timestamp) ==
    [fields |-> fields, type |-> type, title |-> title, status |-> status,
     detail |-> detail, error |-> error, code |-> code, message |-> message,
     correlation_id |-> cid, timestamp |-> timestamp, data |-> {}]

JSONResponse(status_code, content, headers) ==
    [status |-> status_code, body |-> content, headers |-> headers]

\* the body of a handler's return value
Content == Body({"data"}, "", "", 0, "", {}, "", "", <<>>, 0)

_create_rfc7807_response(status, error_code, message, correlation_id, headers, t) ==
    JSONResponse(status,
                 Body(EnvelopeFields, ERROR_TYPE_BASE \o error_code,
                      _get_title_for_status(status), status, message,
                      {"code", "message", "description"}, error_code, message,
                      correlation_id, t),
                 headers)

\* main.py; correlation_id is request.state.correlation_id
http_exception_handler(correlation_id, exc, t) ==
    JSONResponse(exc.status,
                 Body(EnvelopeFields, RFC7807_TYPE, _get_title_for_status(exc.status),
                      exc.status, exc.detail, {"code", "message"}, "http_error",
                      exc.detail, correlation_id, t),
                 exc.headers)

validation_exception_handler(correlation_id, exc, t) ==
    JSONResponse(422,
                 Body(EnvelopeFields, RFC7807_TYPE, "Unprocessable Entity", 422,
                      "Validation error", {"code", "message"}, "validation_error",
                      exc.detail, correlation_id, t),
                 {})

\* the handler FastAPI installs for starlette's HTTPException
default_http_exception_handler(exc) ==
    JSONResponse(exc.status,
                 Body({"detail"}, "", "", 0, exc.detail, {}, "", "", <<>>, 0),
                 exc.headers)

\* the exception handlers of the application: a handler is looked up along
\* the classes of the exception, so the one registered for
\* fastapi.HTTPException does not serve its base class; an exception without
\* a handler travels on to the middlewares
ExceptionMiddleware(outcome, correlation_id, t) ==
    CASE outcome.kind = "return" ->
            [raised |-> FALSE, response |-> JSONResponse(200, Content, {})]
      [] outcome.kind = "HTTPException" ->
            [raised |-> FALSE,
             response |-> http_exception_handler(correlation_id, outcome, t)]
      [] outcome.kind = "StarletteHTTPException" ->
            [raised |-> FALSE, response |-> default_http_exception_handler(outcome)]
      [] outcome.kind = "RequestValidationError" ->
            [raised |-> FALSE,
             response |-> validation_exception_handler(correlation_id, outcome, t)]
      [] OTHER -> [raised |-> TRUE, response |-> JSONResponse(0, Content, {})]

\* LoggingMiddleware.dispatch: a response that comes back gets a header
LoggingMiddleware(resp) ==
    [resp EXCEPT !.headers = @ \cup {<<"X-Process-Time", "0.0">>}]

Environments == {"development", "production"}

\* ErrorHandlerMiddleware.dispatch from the try on: outcome is what
\* call_next ends with, under is whether it came from under the limiter
\* (FALSE: the limiter itself raised it)
ErrorHandlerMiddleware(outcome, under, correlation_id, t, env) ==
    LET inner == ExceptionMiddleware(outcome, correlation_id, t)
    IN IF under /\ ~ inner.raised THEN LoggingMiddleware(inner.response)
       ELSE IF outcome.kind = "ApiError"
       THEN _create_rfc7807_response(outcome.status, outcome.code, outcome.detail,
                                     correlation_id, {}, t)
       ELSE IF outcome.kind = "HTTPException"
       THEN _create_rfc7807_response(outcome.status, "http_error", outcome.detail,
                                     correlation_id, outcome.headers, t)
       ELSE _create_rfc7807_response(
                500, "internal_error",
                IF env = "production" THEN "Internal server error" ELSE outcome.detail,
                correlation_id, {}, t)

NoResponse ==
    [op |-> "none", request |-> Request("", "", <<>>, None, None), token |-> <<>>,
     status |-> 0, body |-> Content, headers |-> {}, correlation_id |-> <<>>]

\* the exchange an action leaves behind; token is the bearer or refresh
\* token sent (<<>>: none), correlation_id is request.state.correlation_id
Exchange(request, token, correlation_id, resp) ==
    [op |-> "serve", request |-> request, token |-> token,
     status |-> resp.status, body |-> resp.body, headers |-> resp.headers,
     correlation_id |-> correlation_id]

\* mutant of AuthService.get_current_user: the username of the token has
\* to be the username of the row
AuthService_get_current_user_by_name(table, token, t) ==
    IF verify_token(token, t) # Ok
    THEN [error |-> verify_token(token, t), user_id |-> 0]
    ELSE IF token.sub = <<>>
    THEN [error |-> UnauthorizedError("Invalid token"), user_id |-> 0]
    ELSE IF ~ IsNumeric(token.sub[1])
    THEN [error |-> UnauthorizedError("Invalid user ID in token"), user_id |-> 0]
    ELSE IF int(token.sub[1]) \notin DOMAIN table
    THEN [error |-> NotFoundError("User not found"), user_id |-> 0]
    ELSE IF table[int(token.sub[1])].username # token.username
    THEN [error |-> UnauthorizedError("Invalid token"), user_id |-> 0]
    ELSE [error |-> Ok, user_id |-> int(token.sub[1])]

\* AuthService.get_current_user: the error raised, or Ok and the user's id
AuthService_get_current_user(table, token, t) ==
    IF verify_token(token, t) # Ok
    THEN [error |-> verify_token(token, t), user_id |-> 0]
    ELSE IF token.sub = <<>>
    THEN [error |-> UnauthorizedError("Invalid token"), user_id |-> 0]
    ELSE IF ~ IsNumeric(token.sub[1])
    THEN [error |-> UnauthorizedError("Invalid user ID in token"), user_id |-> 0]
    ELSE IF int(token.sub[1]) \notin DOMAIN table
    THEN [error |-> NotFoundError("User not found"), user_id |-> 0]
    ELSE [error |-> Ok, user_id |-> int(token.sub[1])]

\* the dependency get_current_user behind HTTPBearer; credentials is the
\* bearer token of the Authorization header (<<>>: no header)
get_current_user(table, credentials, t) ==
    IF credentials = <<>>
    THEN [outcome |-> HTTPException(403, "Not authenticated", {}), user_id |-> 0]
    ELSE LET found == AuthService_get_current_user(table, credentials[1], t)
         IN IF found.error = Ok
            THEN [outcome |-> Returned, user_id |-> found.user_id]
            ELSE IF found.error.code = "unauthorized"
            THEN [outcome |-> HTTPException(401, found.error.message,
                                            {<<"WWW-Authenticate", "Bearer">>}),
                  user_id |-> 0]
            ELSE [outcome |-> HTTPException(401, "Could not validate credentials",
                                            {<<"WWW-Authenticate", "Bearer">>}),
                  user_id |-> 0]

\* the token login_user and refresh_token hand out for a user row
TokenFor(user, t) ==
    create_access_token([sub |-> <<str(user.id)>>, username |-> user.username],
                        <<>>, t,
                        [id |-> user.id, iat |-> t, ttl |-> <<>>, genuine |-> TRUE])

\* the wishes table at the start: wish 1 belongs to user 1, wish 2 to user 2
InitWishes ==
    1 :> [id |-> 1, title |-> <<"a">>, user_id |-> 1]
    @@
    2 :> [id |-> 2, title |-> <<"A", "b">>, user_id |-> 2]

\* .first() of the query: no id ({}) or the id of the row ({wish_id})
get_by_user_and_id(table, user_id, wish_id) ==
    {i \in DOMAIN table : i = wish_id /\ table[i].user_id = user_id}

\* what clients send
Client(method, path) == Request(method, path, <<>>, None, "ip1")
Bearers == {<<>>} \cup {<<token>> : token \in issued \cup Forgeries}
LoginBodies == {<<>>} \cup {<<c>> : c \in Credentials}
WishIds == {1, 999}
Unrouted ==
    { Client("GET", "/nosuch"), Client("GET", "/api/v1/auth/login"),
      Client("POST", "/auth/login") }

\* ErrorHandlerMiddleware.dispatch around the rest of the pipeline
Serve(request, token, outcome, under, env) ==
    LET correlation_id == uuid4(uuid_draws + 1)
    IN /\ uuid_draws < MaxRequests
       /\ uuid_draws' = uuid_draws + 1
       /\ response' =
            Exchange(request, token, correlation_id,
                     ErrorHandlerMiddleware(outcome, under, correlation_id, now, env))

TooManyRequests(detail) == HTTPException(429, detail, {<<"Retry-After", "60">>})

\* POST /api/v1/auth/login; body is the parsed UserLogin (<<>>: the body
\* does not validate), fault says that the user query fails
POST_auth_login(body, fault, env) ==
    LET request == Client("POST", "/api/v1/auth/login")
        username == IF body = <<>> THEN None ELSE body[1].username
        password == IF body = <<>> THEN <<>> ELSE body[1].password
        result == login(users, username, password)
        inner == IF body = <<>> THEN RequestValidationError
                 ELSE IF fault THEN SQLAlchemyError
                 ELSE IF result = Ok THEN Returned
                 ELSE IF result.code = "exception"
                 THEN Exc("Exception", 500, "", result.message, {})
                 ELSE Raised(result)
    IN /\ Limit(request, ApiError(inner.code, inner.detail, inner.status),
                username, password)
       /\ Serve(request, <<>>,
                IF last'.handled THEN inner ELSE TooManyRequests(last'.detail),
                last'.handled, env)
       /\ issued' = IF last'.handled /\ inner = Returned
                    THEN issued \cup
                         {TokenFor(Row(get_by_username_or_email(users, username)), now)}
                    ELSE issued
       /\ UNCHANGED <<now, failed_attempts, users, loopVars, checked, wishes, offHttp>>

\* GET /api/v1/auth/me
GET_auth_me(credentials) ==
    /\ Serve(Client("GET", "/api/v1/auth/me"), credentials,
             get_current_user(users, credentials, now).outcome, TRUE, "development")
    /\ UNCHANGED <<now, limiterVars, users, last, loopVars, issued, checked, wishes, offHttp>>

\* POST /api/v1/auth/refresh; body is the refresh_token sent (<<>>: the
\* body does not validate)
POST_auth_refresh(body) ==
    LET found == IF body = <<>> THEN [error |-> Ok, user_id |-> 0]
                 ELSE AuthService_get_current_user(users, body[1], now)
        outcome == IF body = <<>> THEN RequestValidationError
                   ELSE IF found.error = Ok THEN Returned ELSE Raised(found.error)
    IN /\ Serve(Client("POST", "/api/v1/auth/refresh"), body, outcome, TRUE,
                "development")
       /\ issued' = IF outcome = Returned
                    THEN issued \cup {TokenFor(users[found.user_id], now)}
                    ELSE issued
       /\ UNCHANGED <<now, limiterVars, users, last, loopVars, checked, wishes, offHttp>>

\* DELETE /api/v1/users/me
DELETE_users_me(credentials) ==
    LET dep == get_current_user(users, credentials, now)
    IN /\ Serve(Client("DELETE", "/api/v1/users/me"), credentials, dep.outcome,
                TRUE, "development")
       /\ users' = IF dep.outcome = Returned
                   THEN [i \in DOMAIN users \ {dep.user_id} |-> users[i]]
                   ELSE users
       /\ wishes' = IF dep.outcome = Returned
                    THEN [i \in {j \in DOMAIN wishes : wishes[j].user_id # dep.user_id}
                            |-> wishes[i]]
                    ELSE wishes
       /\ UNCHANGED <<now, limiterVars, last, loopVars, issued, checked, offHttp>>

\* POST /api/v1/auth/logout; body is the parsed LogoutRequest (<<>>: the
\* body does not validate). Nothing is stored or removed.
POST_auth_logout(credentials, body) ==
    LET dep == get_current_user(users, credentials, now)
        outcome == IF dep.outcome # Returned THEN dep.outcome
                   ELSE IF body = <<>> THEN RequestValidationError
                   ELSE Returned
    IN /\ Serve(Client("POST", "/api/v1/auth/logout"), credentials, outcome, TRUE,
                "development")
       /\ UNCHANGED <<now, limiterVars, users, last, loopVars, issued, checked, wishes, offHttp>>

ConflictError(message) == ApiError("conflict", message, 409)

\* a parsed UserUpdate: every field is <<>> (None) or <<value>>
UserUpdate(username, email, password) ==
    [username |-> username, email |-> email, password |-> password]

\* the profile changes tried
UserUpdates ==
    { UserUpdate(<<"alice2">>, <<>>, <<>>), UserUpdate(<<>>, <<"alice@y">>, <<>>),
      UserUpdate(<<>>, <<>>, << <<"p", "2">> >>), UserUpdate(<<"bob">>, <<>>, <<>>),
      UserUpdate(<<"alice">>, <<"bob@x">>, <<>>) }

\* UserService.update_user: the error raised (the table stays) or Ok and
\* the table after the update
update_user(table, user_id, user_data) ==
    LET user == table[user_id]
        username_taken ==
            /\ user_data.username # <<>>
            /\ user_data.username[1] # user.username
            /\ \E i \in DOMAIN table : table[i].username = user_data.username[1]
        email_taken ==
            /\ user_data.email # <<>>
            /\ user_data.email[1] # user.email
            /\ \E i \in DOMAIN table : table[i].email = user_data.email[1]
        updated ==
            [id |-> user.id,
             username |-> IF user_data.username # <<>>
                          THEN user_data.username[1] ELSE user.username,
             email |-> IF user_data.email # <<>>
                       THEN user_data.email[1] ELSE user.email,
             hashed_password |-> IF user_data.password # <<>>
                                 THEN hash_password(user_data.password[1])
                                 ELSE user.hashed_password]
    IN IF user_id \notin DOMAIN table
       THEN [error |-> NotFoundError("User not found"), table |-> table]
       ELSE IF username_taken
       THEN [error |-> ConflictError("Username already exists"), table |-> table]
       ELSE IF email_taken
       THEN [error |-> ConflictError("Email already exists"), table |-> table]
       ELSE [error |-> Ok, table |-> [table EXCEPT ![user_id] = updated]]

\* PATCH /api/v1/users/me; body is the parsed UserUpdate (<<>>: the body
\* does not validate)
PATCH_users_me(credentials, body) ==
    LET dep == get_current_user(users, credentials, now)
        result == IF dep.outcome = Returned /\ body # <<>>
                  THEN update_user(users, dep.user_id, body[1])
                  ELSE [error |-> Ok, table |-> users]
        outcome == IF dep.outcome # Returned THEN dep.outcome
                   ELSE IF body = <<>> THEN RequestValidationError
                   ELSE IF result.error = Ok THEN Returned
                   ELSE HTTPException(result.error.status, result.error.message, {})
    IN /\ Serve(Client("PATCH", "/api/v1/users/me"), credentials, outcome, TRUE,
                "development")
       /\ users' = result.table
       /\ UNCHANGED <<now, limiterVars, last, loopVars, issued, checked, wishes, offHttp>>

\* a wish payload: the title sent (<<>>: none) and whether the JSON object
\* has a key the schema does not declare
WishPayload(title, extra) == [title |-> title, extra |-> extra]

\* the error of a wish payload that does not validate
WishValidationError(payload) ==
    IF payload.extra THEN ExtraForbidden ELSE RequestValidationError

\* mutant of WishCreate: keys outside the schema are ignored
WishCreate_ignores_extra(payload) ==
    IF payload.title = <<>>
       \/ Len(payload.title[1]) < 1 \/ Len(payload.title[1]) > TITLE_MAX
       \/ sanitize_html(payload.title).error
    THEN [error |-> TRUE, title |-> <<>>]
    ELSE [error |-> FALSE, title |-> sanitize_html(payload.title).value]

\* WishCreate(**payload): extra='forbid', title required with 1..200
\* characters, then sanitize_html; error: the payload does not validate
WishCreate(payload) ==
    IF payload.extra \/ payload.title = <<>>
       \/ Len(payload.title[1]) < 1 \/ Len(payload.title[1]) > TITLE_MAX
       \/ sanitize_html(payload.title).error
    THEN [error |-> TRUE, title |-> <<>>]
    ELSE [error |-> FALSE, title |-> sanitize_html(payload.title).value]

\* WishUpdate(**payload): as WishCreate, but the title may be left out
WishUpdate(payload) ==
    IF payload.title = <<>>
    THEN [error |-> payload.extra, title |-> <<>>]
    ELSE WishCreate(payload)

\* WishResponse(...) of a stored row: WishBase's constraints are checked
\* again, so a title stored empty raises pydantic's ValidationError
WishResponseFails(row) ==
    Len(row.title) < 1 \/ Len(row.title) > TITLE_MAX
    \/ sanitize_html(<<row.title>>).error

ResponseValidationText == "1 validation error for WishResponse"

\* WishRepository.get_by_user_id / search_by_title: the ids of the rows
get_by_user_id(table, user_id) ==
    {i \in DOMAIN table : table[i].user_id = user_id}

search_by_title(table, user_id, title) ==
    LET escaped_title == escape_like_pattern(title)
    IN {i \in DOMAIN table :
            table[i].user_id = user_id /\ ilike(table[i].title, escaped_title)}

\* the id a new row gets: one above every id in the table
FreshWishIds(table) ==
    {i \in 1..MaxWishId : \A j \in DOMAIN table : i > j}

\* what clients send to the wish routes
WishTitles == {<<>>, <<<<"B">>>>, <<<<" ">>>>}
WishPayloads ==
    {WishPayload(t, FALSE) : t \in WishTitles}
    \cup {WishPayload(<<>>, TRUE), WishPayload(<<<<"B">>>>, TRUE)}
\* the insert fails or not, in either environment
WishFaults == {<<FALSE, "development">>, <<TRUE, "development">>, <<TRUE, "production">>}
SearchTerms == {<<>>, <<<<"b">>>>}

\* the handler's value, or the error it raised, through the route's
\* except clauses: NotFoundError becomes 404 where the route catches it,
\* every other exception 400 with str(e) as detail
WishRouteOutcome(result) ==
    IF result = Returned THEN Returned
    ELSE IF result.kind = "ApiError" /\ result.code = "not_found"
    THEN HTTPException(404, result.detail, {})
    ELSE HTTPException(400, result.detail, {})

\* POST /api/v1/wishes (create_wish); fault: the insert fails
POST_wishes(credentials, payload, fault, env) ==
    LET dep == get_current_user(users, credentials, now)
        data == WishCreate(payload)
        row(i) == [id |-> i, title |-> data.title[1], user_id |-> dep.user_id]
    IN /\ IF dep.outcome # Returned
          THEN /\ Serve(Client("POST", "/api/v1/wishes"), credentials, dep.outcome,
                        TRUE, env)
               /\ wishes' = wishes
          ELSE IF data.error
          THEN /\ Serve(Client("POST", "/api/v1/wishes"), credentials,
                        WishValidationError(payload), TRUE, env)
               /\ wishes' = wishes
          ELSE IF fault
          THEN /\ Serve(Client("POST", "/api/v1/wishes"), credentials,
                        WishRouteOutcome(SQLAlchemyError), TRUE, env)
               /\ wishes' = wishes
          ELSE \E i \in FreshWishIds(wishes) :
                  /\ wishes' = [j \in DOMAIN wishes \cup {i} |->
                                    IF j = i THEN row(i) ELSE wishes[j]]
                  /\ Serve(Client("POST", "/api/v1/wishes"), credentials,
                           IF WishResponseFails(row(i))
                           THEN HTTPException(400, ResponseValidationText, {})
                           ELSE Returned,
                           TRUE, env)
       /\ UNCHANGED <<now, limiterVars, users, last, loopVars, issued, checked, offHttp>>

\* GET /api/v1/wishes (get_wishes); search is the query parameter
GET_wishes(credentials, search) ==
    LET dep == get_current_user(users, credentials, now)
        found == IF search # <<>> /\ search[1] # <<>>
                 THEN search_by_title(wishes, dep.user_id, search[1])
                 ELSE get_by_user_id(wishes, dep.user_id)
        outcome == IF dep.outcome # Returned THEN dep.outcome
                   ELSE IF \E i \in found : WishResponseFails(wishes[i])
                   THEN HTTPException(400, ResponseValidationText, {})
                   ELSE Returned
    IN /\ uuid_draws < MaxRequests
       /\ uuid_draws' = uuid_draws + 1
       /\ response' =
            LET served == Exchange(Client("GET", "/api/v1/wishes"), credentials,
                                   uuid4(uuid_draws + 1),
                                   ErrorHandlerMiddleware(outcome, TRUE,
                                       uuid4(uuid_draws + 1), now, "development"))
            IN IF outcome = Returned
               THEN [served EXCEPT !.body.data = {wishes[i] : i \in found}]
               ELSE served
       /\ UNCHANGED <<now, limiterVars, users, last, loopVars, issued, checked,
                      wishes, offHttp>>

\* mutant of update_wish: the row is looked up by its id alone
update_wish_any_owner(table, user_id, wish_id, data) ==
    IF wish_id \notin DOMAIN table
    THEN [result |-> Raised(NotFoundError("Wish not found")), table |-> table]
    ELSE LET title == IF data.title = <<>> THEN table[wish_id].title
                      ELSE data.title[1]
             after == [table EXCEPT ![wish_id].title = title]
         IN [result |-> IF WishResponseFails(after[wish_id])
                        THEN Exc("Exception", 500, "", ResponseValidationText, {})
                        ELSE Returned,
             table |-> after]

\* WishService.update_wish: the table afterwards, and the value returned or
\* the exception raised
update_wish(table, user_id, wish_id, data) ==
    IF get_by_user_and_id(table, user_id, wish_id) = {}
    THEN [result |-> Raised(NotFoundError("Wish not found")), table |-> table]
    ELSE LET title == IF data.title = <<>> THEN table[wish_id].title
                      ELSE data.title[1]
             after == [table EXCEPT ![wish_id].title = title]
         IN [result |-> IF WishResponseFails(after[wish_id])
                        THEN Exc("Exception", 500, "", ResponseValidationText, {})
                        ELSE Returned,
             table |-> after]

\* WishService.delete_wish
delete_wish(table, user_id, wish_id) ==
    IF get_by_user_and_id(table, user_id, wish_id) = {}
    THEN [result |-> Raised(NotFoundError("Wish not found")), table |-> table]
    ELSE [result |-> Returned,
          table |-> [i \in DOMAIN table \ {wish_id} |-> table[i]]]

\* PATCH /api/v1/wishes/{wish_id} (update_wish)
PATCH_wishes_id(credentials, wish_id, payload) ==
    LET dep == get_current_user(users, credentials, now)
        data == WishUpdate(payload)
        done == update_wish(wishes, dep.user_id, wish_id, data)
        request == Client("PATCH", "/api/v1/wishes/{wish_id}")
    IN /\ IF dep.outcome # Returned
          THEN Serve(request, credentials, dep.outcome, TRUE, "development")
               /\ wishes' = wishes
          ELSE IF data.error
          THEN Serve(request, credentials, WishValidationError(payload), TRUE,
                     "development")
               /\ wishes' = wishes
          ELSE Serve(request, credentials, WishRouteOutcome(done.result), TRUE,
                     "development")
               /\ wishes' = done.table
       /\ UNCHANGED <<now, limiterVars, users, last, loopVars, issued, checked, offHttp>>

\* DELETE /api/v1/wishes/{wish_id} (delete_wish)
DELETE_wishes_id(credentials, wish_id) ==
    LET dep == get_current_user(users, credentials, now)
        done == delete_wish(wishes, dep.user_id, wish_id)
        request == Client("DELETE", "/api/v1/wishes/{wish_id}")
    IN /\ IF dep.outcome # Returned
          THEN Serve(request, credentials, dep.outcome, TRUE, "development")
               /\ wishes' = wishes
          ELSE Serve(request, credentials, WishRouteOutcome(done.result), TRUE,
                     "development")
               /\ wishes' = done.table
       /\ UNCHANGED <<now, limiterVars, users, last, loopVars, issued, checked, offHttp>>

\* GET /api/v1/wishes/{wish_id}
GET_wishes_id(credentials, wish_id) ==
    LET dep == get_current_user(users, credentials, now)
        outcome == IF dep.outcome # Returned THEN dep.outcome
                   ELSE IF get_by_user_and_id(wishes, dep.user_id, wish_id) = {}
                   THEN HTTPException(404, "Wish not found", {})
                   ELSE IF WishResponseFails(wishes[wish_id])
                   THEN HTTPException(400, ResponseValidationText, {})
                   ELSE Returned
    IN /\ Serve(Client("GET", "/api/v1/wishes/{wish_id}"), credentials, outcome,
                TRUE, "development")
       /\ UNCHANGED <<now, limiterVars, users, last, loopVars, issued, checked, wishes, offHttp>>

\* GET /health
GET_health ==
    /\ Serve(Client("GET", "/health"), <<>>, Returned, TRUE, "development")
    /\ UNCHANGED <<now, limiterVars, users, last, loopVars, issued, checked, wishes, offHttp>>

\* a request the router has no route for: an unknown path (404) or a known
\* path with another method (405); a POST to /auth/login is counted by the
\* limiter first
NoRoute(request) ==
    LET inner == IF request.path = "/api/v1/auth/login"
                 THEN StarletteHTTPException(405, "Method Not Allowed")
                 ELSE StarletteHTTPException(404, "Not Found")
    IN /\ request \in Unrouted
       /\ IF IsLoginPost(request)
          THEN /\ Limit(request, ApiError("", inner.detail, inner.status), None, <<>>)
               /\ Serve(request, <<>>,
                        IF last'.handled THEN inner ELSE TooManyRequests(last'.detail),
                        last'.handled, "development")
               /\ UNCHANGED failed_attempts
          ELSE /\ Serve(request, <<>>, inner, TRUE, "development")
               /\ UNCHANGED <<limiterVars, last>>
       /\ UNCHANGED <<now, users, loopVars, issued, checked, wishes, offHttp>>

----------------------------------------------------------------------------
(* The same operations as coroutines of one event loop, statement by       *)
(* statement. A coroutine keeps the loop until it awaits or ends; dispatch *)
(* awaits only in call_next, the record_* methods not at all.              *)

\* mutant of AwaitAt: the loop may switch coroutines after any statement
AwaitAt_any(pc) == TRUE

\* the positions at which a coroutine gives up the event loop
AwaitAt(pc) == pc \in {"call_next", "done"}

MayRun(r) == tasks[r].pc # "done" /\ (running = r \/ running = 0)

\* task r moves to position pc with its locals changed to "locals"
Step(r, locals, pc) ==
    /\ tasks' = [tasks EXCEPT ![r] = [locals EXCEPT !.pc = pc]]
    /\ running' = IF AwaitAt(pc) THEN 0 ELSE r

\* dispatch: if self._is_ip_blocked(request): raise HTTPException(429)
d_block_check(r) ==
    LET me == tasks[r]
        chk == _is_ip_blocked(blocked_ips, blocked_until, me.ip, now)
    IN /\ MayRun(r) /\ me.pc = "block_check"
       /\ blocked_ips' = chk.blocked_ips
       /\ blocked_until' = chk.blocked_until
       /\ IF chk.blocked
          THEN Step(r, [me EXCEPT !.status = 429], "done")
          ELSE Step(r, me, "read_time")
       /\ UNCHANGED <<now, login_attempts, failed_attempts, users, last, recorded, tokenVars>>

\* dispatch: current_time = time.time()
d_read_time(r) ==
    LET me == tasks[r]
    IN /\ MayRun(r) /\ me.pc = "read_time"
       /\ Step(r, [me EXCEPT !.t = now], "filter")
       /\ UNCHANGED <<now, limiterVars, users, last, recorded, tokenVars>>

\* _cleanup_old_attempts: the list comprehension builds the new list
d_filter(r) ==
    LET me == tasks[r]
        kept == _cleanup_old_attempts(login_attempts[me.ip], me.t)
    IN /\ MayRun(r) /\ me.pc = "filter"
       /\ Step(r, [me EXCEPT !.kept = kept], "store")
       /\ UNCHANGED <<now, limiterVars, users, last, recorded, tokenVars>>

\* _cleanup_old_attempts: self.login_attempts[client_ip] = <the new list>
d_store(r) ==
    LET me == tasks[r]
    IN /\ MayRun(r) /\ me.pc = "store"
       /\ login_attempts' = [login_attempts EXCEPT ![me.ip] = me.kept]
       /\ Step(r, me, "append")
       /\ UNCHANGED <<now, failed_attempts, blocked_ips, blocked_until, users,
                      last, recorded, tokenVars>>

\* dispatch: self.login_attempts[client_ip].append(current_time)
d_append(r) ==
    LET me == tasks[r]
    IN /\ MayRun(r) /\ me.pc = "append"
       /\ login_attempts' =
            [login_attempts EXCEPT ![me.ip] = Append(login_attempts[me.ip], me.t)]
       /\ Step(r, me, "count")
       /\ UNCHANGED <<now, failed_attempts, blocked_ips, blocked_until, users,
                      last, recorded, tokenVars>>

\* dispatch: attempts_in_window = len(...), then raise 429 or
\* await call_next(request)
d_count(r) ==
    LET me == tasks[r]
        attempts_in_window == Len(login_attempts[me.ip])
    IN /\ MayRun(r) /\ me.pc = "count"
       /\ IF OverLimit(attempts_in_window)
          THEN Step(r, [me EXCEPT !.status = 429, !.count = attempts_in_window],
                    "done")
          ELSE Step(r, [me EXCEPT !.admitted = TRUE, !.count = attempts_in_window],
                    "call_next")
       /\ UNCHANGED <<now, limiterVars, users, last, recorded, tokenVars>>

\* the login route runs and dispatch returns its response
d_call_next(r, username, password) ==
    LET me == tasks[r]
        result == login(users, username, password)
    IN /\ MayRun(r) /\ me.pc = "call_next"
       /\ Step(r, [me EXCEPT !.status = result.status], "done")
       /\ UNCHANGED <<now, limiterVars, users, last, recorded, tokenVars>>

\* record_failed_attempt: self.failed_attempts[client_ip] += 1, the read
f_read(r) ==
    LET me == tasks[r]
    IN /\ MayRun(r) /\ me.pc = "f_read"
       /\ Step(r, [me EXCEPT !.count = failed_attempts[me.ip]], "f_write")
       /\ UNCHANGED <<now, limiterVars, users, last, recorded, tokenVars>>

\* record_failed_attempt: self.failed_attempts[client_ip] += 1, the store
f_write(r) ==
    LET me == tasks[r]
    IN /\ MayRun(r) /\ me.pc = "f_write"
       /\ failed_attempts' = [failed_attempts EXCEPT ![me.ip] = me.count + 1]
       /\ recorded' = [recorded EXCEPT ![me.ip] = @ + 1]
       /\ Step(r, me, "f_block")
       /\ UNCHANGED <<now, login_attempts, blocked_ips, blocked_until, users, last, tokenVars>>

\* record_failed_attempt: if self.failed_attempts[client_ip] >= 5: block
f_block(r) ==
    LET me == tasks[r]
    IN /\ MayRun(r) /\ me.pc = "f_block"
       /\ IF failed_attempts[me.ip] >= BLOCK_THRESHOLD
          THEN /\ blocked_ips' = blocked_ips \cup {me.ip}
               /\ blocked_until' = DictSet(blocked_until, me.ip, now + BLOCK_SECONDS)
          ELSE UNCHANGED <<blocked_ips, blocked_until>>
       /\ Step(r, me, "done")
       /\ UNCHANGED <<now, login_attempts, failed_attempts, users, last, recorded, tokenVars>>

\* record_successful_attempt: self.failed_attempts[client_ip] = 0
s_reset(r) ==
    LET me == tasks[r]
    IN /\ MayRun(r) /\ me.pc = "s_reset"
       /\ failed_attempts' = [failed_attempts EXCEPT ![me.ip] = 0]
       /\ recorded' = [recorded EXCEPT ![me.ip] = 0]
       /\ Step(r, me, "s_unblock")
       /\ UNCHANGED <<now, login_attempts, blocked_ips, blocked_until, users, last, tokenVars>>

\* record_successful_attempt: if client_ip in self.blocked_ips: unblock
s_unblock(r) ==
    LET me == tasks[r]
    IN /\ MayRun(r) /\ me.pc = "s_unblock"
       /\ IF me.ip \in blocked_ips
          THEN /\ blocked_ips' = blocked_ips \ {me.ip}
               /\ blocked_until' = DictPop(blocked_until, me.ip)
          ELSE UNCHANGED <<blocked_ips, blocked_until>>
       /\ Step(r, me, "done")
       /\ UNCHANGED <<now, login_attempts, failed_attempts, users, last, recorded, tokenVars>>

----------------------------------------------------------------------------
vars == <<now, login_attempts, failed_attempts, blocked_ips, blocked_until,
          users, last, tasks, running, recorded, issued, checked, uuid_draws,
          response, wishes, validated, report>>

Tasks == 1..NTasks

IdleTask ==
    [kind |-> "none", ip |-> None, pc |-> "done", t |-> 0, kept |-> <<>>,
     count |-> 0, admitted |-> FALSE, status |-> 0]

Init ==
    /\ now = 0
    /\ login_attempts = [i \in IPs |-> <<>>]
    /\ failed_attempts = [i \in IPs |-> 0]
    /\ blocked_ips = {}
    /\ blocked_until = <<>>
    /\ users = InitUsers
    /\ last = NoOutcome("init", None, FALSE)
    /\ tasks = [r \in Tasks |-> IdleTask]
    /\ running = 0
    /\ recorded = [i \in IPs |-> 0]
    /\ issued = {}
    /\ checked = NotChecked
    /\ uuid_draws = 0
    /\ response = NoResponse
    /\ wishes = InitWishes
    /\ validated = NotValidated
    /\ report = NoReport

Next ==
    \/ \E request \in LoginRequests, c \in Credentials :
            dispatch(request, c.username, c.password)
    \/ \E request \in LoginRequests : record_failed_attempt(request)
    \/ \E request \in LoginRequests : record_successful_attempt(request)
    \/ clear_rate_limiter_state
    \/ \E t \in Times : Tick(t)

Spec == Init /\ [][Next]_vars

\* the limiter in front of every request of the clients, login or not: the
\* login POSTs of one client through both aliases, and the other requests
AllRequests == { q \in LoginRequests : _get_client_ip(q) = "ip1" } \cup OtherRequests
ScopeCredentials == { c \in Credentials : c.username = "alice" }

NextScope ==
    \/ \E request \in AllRequests, c \in ScopeCredentials :
            dispatch(request, c.username, c.password)
    \/ \E request \in AllRequests : dispatch_passes(request)
    \/ \E request \in AllRequests : record_failed_attempt(request)
    \/ \E t \in Times : Tick(t)

SpecScope == Init /\ [][NextScope]_vars

\* the first position of each kind of coroutine
Entry(kind) ==
    IF kind = "login" THEN "block_check"
    ELSE IF kind = "failed" THEN "f_read" ELSE "s_reset"

\* the requests of one client
SameIpRequests == { q \in LoginRequests : _get_client_ip(q) = "ip1" }

\* NTasks coroutines are in flight for one client: login requests and calls
\* of the two record_* methods; the client starts with 0 or 3 failures
InitLoop ==
    /\ now = 0
    /\ login_attempts = [i \in IPs |-> <<>>]
    /\ failed_attempts \in { [i \in IPs |-> IF i = "ip1" THEN n ELSE 0] : n \in {0, 3} }
    /\ recorded = failed_attempts
    /\ blocked_ips = {}
    /\ blocked_until = <<>>
    /\ users = InitUsers
    /\ last = NoOutcome("init", None, FALSE)
    /\ running = 0
    /\ issued = {}
    /\ checked = NotChecked
    /\ uuid_draws = 0
    /\ response = NoResponse
    /\ wishes = InitWishes
    /\ validated = NotValidated
    /\ report = NoReport
    /\ tasks \in [Tasks -> { [IdleTask EXCEPT !.kind = k, !.ip = _get_client_ip(q),
                                               !.pc = Entry(k)] :
                                k \in {"login", "failed", "success"},
                                q \in SameIpRequests }]

NextLoop ==
    \/ \E r \in Tasks : d_block_check(r)
    \/ \E r \in Tasks : d_read_time(r)
    \/ \E r \in Tasks : d_filter(r)
    \/ \E r \in Tasks : d_store(r)
    \/ \E r \in Tasks : d_append(r)
    \/ \E r \in Tasks : d_count(r)
    \/ \E r \in Tasks, c \in Credentials : d_call_next(r, c.username, c.password)
    \/ \E r \in Tasks : f_read(r)
    \/ \E r \in Tasks : f_write(r)
    \/ \E r \in Tasks : f_block(r)
    \/ \E r \in Tasks : s_reset(r)
    \/ \E r \in Tasks : s_unblock(r)
    \/ \E t \in Times : Tick(t)

SpecLoop == InitLoop /\ [][NextLoop]_vars

NextToken ==
    \/ \E id \in TokenIds, d \in Lifetimes : \E data \in Payloads(id) :
            Issue(id, data, d)
    \/ \E token \in issued \cup Forgeries : Present(token)
    \/ \E t \in TokenTimes : Tick(t)

SpecToken == Init /\ [][NextToken]_vars

\* the codec after a rotation of the secret: tokens are issued under the
\* current secret, tokens of both secrets and forgeries are presented
NextRotation ==
    \/ \E id \in TokenIds, d \in Lifetimes : \E data \in Payloads(id) :
            Issue(id, data, d)
    \/ \E token \in issued \cup Retired \cup Forgeries : Present(token)
    \/ \E t \in TokenTimes : Tick(t)

SpecRotation == Init /\ [][NextRotation]_vars

HttpTimes == {30, 1860}

NextHttp ==
    \/ \E body \in LoginBodies, fault \in BOOLEAN, env \in Environments :
            POST_auth_login(body, fault, env)
    \/ \E credentials \in Bearers : GET_auth_me(credentials)
    \/ \E body \in Bearers : POST_auth_refresh(body)
    \/ \E credentials \in Bearers : DELETE_users_me(credentials)
    \/ \E credentials \in Bearers, wish_id \in WishIds :
            GET_wishes_id(credentials, wish_id)
    \/ GET_health
    \/ \E request \in Unrouted : NoRoute(request)
    \/ \E t \in HttpTimes : Tick(t)

SpecHttp == Init /\ [][NextHttp]_vars

\* the life of a session: logins, requests with the tokens they hand out,
\* logout, profile changes, deletion of the account, and the clock
NextSession ==
    \/ \E body \in LoginBodies : POST_auth_login(body, FALSE, "development")
    \/ \E credentials \in Bearers : GET_auth_me(credentials)
    \/ \E body \in Bearers : POST_auth_refresh(body)
    \/ \E credentials \in Bearers, body \in {<<>>, <<"token">>} :
            POST_auth_logout(credentials, body)
    \/ \E credentials \in Bearers, body \in {<<>>} \cup {<<u>> : u \in UserUpdates} :
            PATCH_users_me(credentials, body)
    \/ \E credentials \in Bearers : DELETE_users_me(credentials)
    \/ \E t \in HttpTimes : Tick(t)

SpecSession == Init /\ [][NextSession]_vars

\* both users have logged in at time 0, each from an address of their own:
\* two requests were served, two tokens are in circulation
InitWish ==
    /\ now = 0
    /\ login_attempts = [i \in IPs |-> <<0>>]
    /\ failed_attempts = [i \in IPs |-> 0]
    /\ blocked_ips = {}
    /\ blocked_until = <<>>
    /\ users = InitUsers
    /\ last = NoOutcome("init", None, FALSE)
    /\ tasks = [r \in Tasks |-> IdleTask]
    /\ running = 0
    /\ recorded = [i \in IPs |-> 0]
    /\ issued = {TokenFor(InitUsers[i], 0) : i \in DOMAIN InitUsers}
    /\ checked = NotChecked
    /\ uuid_draws = 2
    /\ response = NoResponse
    /\ wishes = InitWishes
    /\ validated = NotValidated
    /\ report = NoReport

WishBearers == {<<>>} \cup {<<token>> : token \in issued}

NextWish ==
    \/ \E credentials \in WishBearers, payload \in WishPayloads, f \in WishFaults :
            POST_wishes(credentials, payload, f[1], f[2])
    \/ \E credentials \in WishBearers, search \in SearchTerms :
            GET_wishes(credentials, search)
    \/ \E credentials \in WishBearers, wish_id \in 1..MaxWishId :
            GET_wishes_id(credentials, wish_id)
    \/ \E credentials \in WishBearers, wish_id \in 1..MaxWishId,
          payload \in WishPayloads :
            PATCH_wishes_id(credentials, wish_id, payload)
    \/ \E credentials \in WishBearers, wish_id \in 1..MaxWishId :
            DELETE_wishes_id(credentials, wish_id)
    \/ POST_auth_login(<<>>, FALSE, "development")

SpecWish == InitWish /\ [][NextWish]_vars

\* a request arrives with a value for the field
InitSanitize ==
    /\ now = 0
    /\ login_attempts = [i \in IPs |-> <<>>]
    /\ failed_attempts = [i \in IPs |-> 0]
    /\ blocked_ips = {}
    /\ blocked_until = <<>>
    /\ users = InitUsers
    /\ last = NoOutcome("init", None, FALSE)
    /\ tasks = [r \in Tasks |-> IdleTask]
    /\ running = 0
    /\ recorded = [i \in IPs |-> 0]
    /\ issued = {}
    /\ checked = NotChecked
    /\ uuid_draws = 0
    /\ response = NoResponse
    /\ wishes = InitWishes
    /\ validated \in {[NotValidated EXCEPT !.op = "input", !.input = v] : v \in FieldValues}
    /\ report = NoReport

\* a search arrives with a term
InitLike ==
    /\ now = 0
    /\ login_attempts = [i \in IPs |-> <<>>]
    /\ failed_attempts = [i \in IPs |-> 0]
    /\ blocked_ips = {}
    /\ blocked_until = <<>>
    /\ users = InitUsers
    /\ last = NoOutcome("init", None, FALSE)
    /\ tasks = [r \in Tasks |-> IdleTask]
    /\ running = 0
    /\ recorded = [i \in IPs |-> 0]
    /\ issued = {}
    /\ checked = NotChecked
    /\ uuid_draws = 0
    /\ response = NoResponse
    /\ wishes = InitWishes
    /\ validated \in {[NotValidated EXCEPT !.op = "term", !.input = <<t>>] : t \in SearchStrings}
    /\ report = NoReport

NextLike == Escape

SpecLike == InitLike /\ [][NextLike]_vars

InitPassword ==
    /\ now = 0
    /\ login_attempts = [i \in IPs |-> <<>>]
    /\ failed_attempts = [i \in IPs |-> 0]
    /\ blocked_ips = {}
    /\ blocked_until = <<>>
    /\ users = InitUsers
    /\ last = NoOutcome("init", None, FALSE)
    /\ tasks = [r \in Tasks |-> IdleTask]
    /\ running = 0
    /\ recorded = [i \in IPs |-> 0]
    /\ issued = {}
    /\ checked = NotChecked
    /\ uuid_draws = 0
    /\ response = NoResponse
    /\ wishes = InitWishes
    /\ validated \in {[NotValidated EXCEPT !.op = "password", !.input = <<p, q>>] :
                         p \in Passwords, q \in UNION {Probes(x) : x \in Passwords}}
    /\ validated.input[2] \in Probes(validated.input[1])
    /\ report = NoReport

NextPassword ==
    \/ Hash
    \/ Stored(LegacyHash(validated.input[1]))
    \/ \E hash \in CorruptHashes : Stored(hash)
    \/ Verify

SpecPassword == InitPassword /\ [][NextPassword]_vars

\* a Decimal: its sign, the digits before the point (none for 0) and the
\* digits after it
Dec(negative, units, frac) == [negative |-> negative, units |-> units, frac |-> frac]
Digits(n) == [i \in 1..n |-> "9"]
\* Field(None, ge=0, max_digits=12, decimal_places=2) on an Optional price
price_field(price) ==
    price # <<>>
    /\ \/ price[1].negative
       \/ Len(price[1].units) + Len(price[1].frac) > PRICE_MAX_DIGITS
       \/ Len(price[1].frac) > PRICE_DECIMAL_PLACES

\* the fields of a wish body: title, description and price, each sent or not
WishFields(title, description, price) ==
    [title |-> title, description |-> description, price |-> price]

\* WishCreate(**fields) with all its fields: the constraints of the Fields,
\* then sanitize_html on title and description
WishCreate_fields(fields) ==
    IF fields.title = <<>>
       \/ Len(fields.title[1]) < 1 \/ Len(fields.title[1]) > TITLE_MAX
       \/ (fields.description # <<>> /\ Len(fields.description[1]) > DESCRIPTION_MAX)
       \/ price_field(fields.price)
       \/ sanitize_html(fields.title).error
       \/ sanitize_html(fields.description).error
    THEN [error |-> TRUE, title |-> <<>>, description |-> <<>>, price |-> <<>>]
    ELSE [error |-> FALSE, title |-> sanitize_html(fields.title).value,
          description |-> sanitize_html(fields.description).value,
          price |-> fields.price]

\* WishUpdate(**fields): the same, but the title may be left out
WishUpdate_fields(fields) ==
    IF fields.title = <<>>
    THEN [WishCreate_fields([fields EXCEPT !.title = <<<<"t">>>>])
             EXCEPT !.title = <<>>]
    ELSE WishCreate_fields(fields)

\* create_wish: the dictionary handed to wish_repo.create
wish_dict(user_id, wish_data) ==
    [title |-> wish_data.title[1], description |-> wish_data.description,
     user_id |-> user_id]

\* BaseRepository.create: Wish(**obj_data), a column that is not given is NULL
create(id, obj_data) ==
    [c \in {"id", "title", "description", "price", "user_id"} |->
        IF c = "id" THEN id ELSE IF c \in DOMAIN obj_data THEN obj_data[c] ELSE <<>>]

\* update_wish: the dictionary handed to wish_repo.update
update_data(wish_data) ==
    [k \in {c \in {"title", "description"} : wish_data[c] # <<>>} |->
        IF k = "title" THEN wish_data.title[1] ELSE wish_data.description]

\* BaseRepository.update: setattr for every key of the dictionary
update(db_obj, obj_in) ==
    [c \in DOMAIN db_obj |-> IF c \in DOMAIN obj_in THEN obj_in[c] ELSE db_obj[c]]

\* the WishResponse the service builds of a row: id, title, description and
\* user_id are passed, price is left at its default
WishResponse(wish) ==
    [id |-> wish.id, title |-> wish.title, description |-> wish.description,
     user_id |-> wish.user_id, price |-> <<>>]

\* the prices explored: none, 0, 99.99, the largest of 12 digits, and three
\* the Field refuses (negative, three decimals, 13 digits)
Prices ==
    { <<>>, <<Dec(FALSE, <<>>, <<>>)>>, <<Dec(FALSE, Digits(2), Digits(2))>>,
      <<Dec(FALSE, Digits(PRICE_MAX_DIGITS - PRICE_DECIMAL_PLACES),
            Digits(PRICE_DECIMAL_PLACES))>>,
      <<Dec(TRUE, Digits(1), <<>>)>>,
      <<Dec(FALSE, Digits(1), Digits(PRICE_DECIMAL_PLACES + 1))>>,
      <<Dec(FALSE, Digits(PRICE_MAX_DIGITS - 1), Digits(PRICE_DECIMAL_PLACES))>> }
WishInputs ==
    {WishFields(<<<<"B">>>>, d, p) : d \in {<<>>, <<<<"d", " ">>>>}, p \in Prices}
WishPatches ==
    {WishFields(t, d, p) : t \in {<<>>, <<<<"C">>>>}, d \in {<<>>, <<<<"e">>>>},
                           p \in Prices}

\* validated.input is <<fields, patch>> followed by the operations done;
\* validated.value is <<row>>, and <<row, response>> after a read
\* WishService.create_wish for user 1 with the fields drawn
CreateWish ==
    /\ validated.op = "wish"
    /\ LET wish_data == WishCreate_fields(validated.input[1])
       IN validated' = [op |-> "create_wish",
                        input |-> validated.input \o <<"create_wish">>,
                        error |-> wish_data.error,
                        value |-> IF wish_data.error THEN <<>>
                                  ELSE <<create(MaxWishId, wish_dict(1, wish_data))>>]
    /\ UNCHANGED <<now, limiterVars, users, last, loopVars, issued, checked,
                   httpVars, wishes, report>>

\* WishService.update_wish of that wish with the patch drawn
UpdateWish ==
    /\ validated.op = "create_wish" /\ ~ validated.error
    /\ LET wish_data == WishUpdate_fields(validated.input[2])
       IN validated' = [op |-> "update_wish",
                        input |-> validated.input \o <<"update_wish">>,
                        error |-> wish_data.error,
                        value |-> IF wish_data.error THEN validated.value
                                  ELSE <<update(validated.value[1],
                                                update_data(wish_data))>>]
    /\ UNCHANGED <<now, limiterVars, users, last, loopVars, issued, checked,
                   httpVars, wishes, report>>

\* WishService.get_wish of that wish
GetWish ==
    /\ validated.op \in {"create_wish", "update_wish"} /\ ~ validated.error
    /\ validated' = [op |-> "get_wish", input |-> validated.input,
                     error |-> FALSE,
                     value |-> <<validated.value[1], WishResponse(validated.value[1])>>]
    /\ UNCHANGED <<now, limiterVars, users, last, loopVars, issued, checked,
                   httpVars, wishes, report>>

InitPrice ==
    /\ now = 0
    /\ login_attempts = [i \in IPs |-> <<>>]
    /\ failed_attempts = [i \in IPs |-> 0]
    /\ blocked_ips = {}
    /\ blocked_until = <<>>
    /\ users = InitUsers
    /\ last = NoOutcome("init", None, FALSE)
    /\ tasks = [r \in Tasks |-> IdleTask]
    /\ running = 0
    /\ recorded = [i \in IPs |-> 0]
    /\ issued = {}
    /\ checked = NotChecked
    /\ uuid_draws = 0
    /\ response = NoResponse
    /\ wishes = InitWishes
    /\ validated \in {[NotValidated EXCEPT !.op = "wish", !.input = <<fields, patch>>] :
                         fields \in WishInputs, patch \in WishPatches}
    /\ report = NoReport

NextPrice ==
    \/ CreateWish
    \/ UpdateWish
    \/ GetWish

SpecPrice == InitPrice /\ [][NextPrice]_vars

NextSanitize == Validate

SpecSanitize == InitSanitize /\ [][NextSanitize]_vars

NextMask ==
    \/ \E message \in Messages : render_api_error(message)
    \/ \E detail \in Messages : render_http_exception(detail)
    \/ \E text \in Messages, env \in Environments : render_unexpected(text, env)
    \/ \E detail \in Messages : handle_http_exception(detail)

SpecMask == Init /\ [][NextMask]_vars

----------------------------------------------------------------------------
(* Properties of the limiter, checked under Spec *)

\* the step is a login POST from ip (every other operation names itself
\* in last.op)
LoginStep(ip) == last'.op = "login" /\ last'.ip = ip

\* the block of ip is in force at the current clock reading
BlockInForce(ip) ==
    ip \in blocked_ips /\ ip \in DOMAIN blocked_until /\ blocked_until[ip] >= now

Rejected429(o) == o.status = 429 /\ o.retry_after = "60" /\ ~ o.handled

\* some row has this username or e-mail and a hash of this password
CredentialsValid(u, p) ==
    \E i \in DOMAIN users :
        /\ users[i].username = u \/ users[i].email = u
        /\ users[i].hashed_password = [scheme |-> "argon2id", secret |-> p]

AllButLast(w) == SubSeq(w, 1, Len(w) - 1)

C2_Lockout ==
    [][\A ip \in IPs :
        /\ (last'.op = "failed" /\ last'.ip = ip /\ failed_attempts[ip] = 4) =>
                /\ failed_attempts'[ip] = 5
                /\ ip \in blocked_ips'
                /\ ip \in DOMAIN blocked_until'
                /\ blocked_until'[ip] = now + 900
        /\ (LoginStep(ip) /\ BlockInForce(ip)) =>
                /\ Rejected429(last')
                /\ login_attempts' = login_attempts
                /\ BlockInForce(ip)'
        /\ (LoginStep(ip) /\ ip \in blocked_ips /\ ~ BlockInForce(ip)) =>
                /\ ip \notin blocked_ips'
                /\ ip \notin DOMAIN blocked_until'
        /\ (last'.op = "tick") =>
                /\ blocked_ips' = blocked_ips
                /\ blocked_until' = blocked_until]_vars

\* C2 witness: a POST rejected exactly 900 s after the 5th failure, when
\* nothing of the IP's window is younger than 60 s
C2_Witness ==
    /\ last.op = "login" /\ last.detail = BlockedDetail /\ Rejected429(last)
    /\ failed_attempts[last.ip] = 5
    /\ blocked_until[last.ip] = now
    /\ Len(login_attempts[last.ip]) >= 1
    /\ \A i \in 1..Len(login_attempts[last.ip]) :
            now - login_attempts[last.ip][i] > 60

\* C5: record_successful_attempt(ip) leaves failed_count 0 and the IP
\* neither in the blocked set nor with an expiry time, changes nothing of any
\* other IP, and a login POST from an IP that is not in the blocked set is
\* never answered by the block check.
C5_SuccessUnblocks ==
    /\ [][\A ip \in IPs :
            (last'.op = "success" /\ last'.ip = ip) =>
                /\ failed_attempts'[ip] = 0
                /\ ip \notin blocked_ips'
                /\ ip \notin DOMAIN blocked_until'
                /\ login_attempts' = login_attempts
                /\ \A o \in IPs \ {ip} :
                     /\ failed_attempts'[o] = failed_attempts[o]
                     /\ (o \in blocked_ips') = (o \in blocked_ips)
                     /\ (o \in DOMAIN blocked_until') = (o \in DOMAIN blocked_until)
                     /\ o \in DOMAIN blocked_until =>
                            blocked_until'[o] = blocked_until[o]]_vars
    /\ [][\A ip \in IPs :
            (LoginStep(ip) /\ ip \notin blocked_ips) =>
                last'.detail # BlockedDetail]_vars

\* C5 witness: a success recorded for a blocked IP while the other IP stays
\* blocked
C5_Witness ==
    /\ last.op = "success" /\ last.was_blocked
    /\ failed_attempts[last.ip] = 0
    /\ \E o \in IPs \ {last.ip} : o \in blocked_ips

\* C6: every login request that reaches the handler and fails with 401
\* increments failed_count of the client's IP.
C6_FailureCounted ==
    [][\A ip \in IPs :
        (LoginStep(ip) /\ last'.handled /\ last'.status = 401) =>
            failed_attempts'[ip] = failed_attempts[ip] + 1]_vars

----------------------------------------------------------------------------
(* Properties of the event loop, checked under SpecLoop *)

\* login coroutine r has appended its timestamp
HasAppended(r) ==
    /\ tasks[r].kind = "login"
    /\ tasks[r].pc = "count" \/ tasks[r].count >= 1

Occurrences(w, v) == Cardinality({ i \in 1..Len(w) : w[i] = v })

----------------------------------------------------------------------------
(* Claims about the token codec, under SpecToken *)

\* the lifetime a call asked for: its expires_delta, or the configured one
AskedLifetime(ghost) ==
    IF ghost.ttl = <<>> THEN ACCESS_TOKEN_EXPIRE_MINUTES * 60 ELSE ghost.ttl[1]

\* the token presented last came from create_access_token for the login
\* payload {sub: str(id), username}
LoginTokenChecked ==
    /\ checked.op = "check"
    /\ checked.token[1].ghost.genuine
    /\ checked.token[1].sub = <<str(checked.token[1].ghost.id)>>

\* C4: a token issued for {sub: str(id), username} with lifetime ttl is
\* accepted, and resolves to the integer id, at every moment before
\* issue time + ttl, and is rejected with the unauthorized error at every
\* moment after it; any token is accepted only if its signature is the
\* configured key's under the configured algorithm and its exp is not past,
\* and is accepted whenever those hold with exp in the future.
C4_TokenLifetime ==
    checked.op = "check" =>
        LET token == checked.token[1]
            exp == token.ghost.iat + AskedLifetime(token.ghost)
            signed == token.key = SECRET_KEY /\ token.alg = ALGORITHM
        IN /\ LoginTokenChecked /\ checked.at < exp =>
                /\ checked.verify = Ok
                /\ checked.resolve = [error |-> Ok, user_id |-> token.ghost.id]
           /\ LoginTokenChecked /\ checked.at > exp =>
                /\ checked.verify = UnauthorizedError("Invalid token")
                /\ checked.resolve.error = UnauthorizedError("Invalid token")
           /\ checked.verify = Ok => signed /\ checked.at <= token.exp
           /\ signed /\ checked.at < token.exp => checked.verify = Ok

\* what the codec does keep: the same statement for every lifetime that
\* is not timedelta(0)
TokenLifetimeNonZero ==
    checked.op = "check" /\ checked.token[1].ghost.ttl # <<0>> => C4_TokenLifetime

\* a token asked for with lifetime 0 is accepted after its issue time
ZeroLifetimeAccepted ==
    /\ LoginTokenChecked
    /\ checked.token[1].ghost.ttl = <<0>>
    /\ checked.at > checked.token[1].ghost.iat
    /\ checked.verify = Ok

----------------------------------------------------------------------------
(* Claims about the request pipeline, under SpecHttp *)

\* this step served a request
Served == uuid_draws' = uuid_draws + 1

\* this step ran the login handler on a body that validated, and the user
\* query did not fail
LoginHandled ==
    /\ Served
    /\ response'.request = Client("POST", "/api/v1/auth/login")
    /\ last'.handled
    /\ last'.username # None
    /\ response'.body.code # "internal_error"

UnknownUsername(c) == get_by_username_or_email(users, c.username) = {}

WrongPassword(c) ==
    /\ ~ UnknownUsername(c)
    /\ ~ verify_password(c.password,
                         Row(get_by_username_or_email(users, c.username)).hashed_password).value

\* what a client can tell responses apart by, the correlation id and the
\* timestamp aside
Visible(resp) ==
    <<resp.status, resp.headers, resp.body.fields, resp.body.type, resp.body.title,
      resp.body.status, resp.body.detail, resp.body.error, resp.body.code,
      resp.body.message>>

\* the response the login handler's failure for credentials c gets
FailedLoginResponse(c, correlation_id) ==
    ErrorHandlerMiddleware(Raised(login(users, c.username, c.password)), TRUE,
                           correlation_id, now, "development")

\* C7: a login that fails because the username does not exist and a login
\* that fails because the password of an existing username is wrong are
\* answered alike: status 401 and the one message text, and the response to
\* either is, field for field, the response the other would have got.
C7_EnumerationResistance ==
    [][ LET sent == [username |-> last'.username, password |-> last'.password]
        IN LoginHandled /\ (UnknownUsername(sent) \/ WrongPassword(sent)) =>
            /\ response'.status = 401
            /\ response'.body.detail = "Invalid username or password"
            /\ response'.body.message = "Invalid username or password"
            /\ \A c \in Credentials :
                  UnknownUsername(c) \/ WrongPassword(c) =>
                      Visible(response') =
                          Visible(FailedLoginResponse(c, response'.correlation_id))
      ]_vars

\* a login with a username that does not exist has been answered 401 while
\* another username with the same password exists
C7_Witness ==
    /\ response.op = "serve"
    /\ response.request = Client("POST", "/api/v1/auth/login")
    /\ last.handled
    /\ last.username = "nosuchuser"
    /\ response.status = 401
    /\ response.body.message = "Invalid username or password"
    /\ \E c \in Credentials : WrongPassword(c)

\* the token verifies now and names an account that is not in the table
OutlivedAccount(token) ==
    /\ verify_token(token, now) = Ok
    /\ token.sub # <<>>
    /\ IsNumeric(token.sub[1])
    /\ int(token.sub[1]) \notin DOMAIN users

\* C8: a request that carries a token which verifies but names an account
\* that no longer exists is answered 401, never 404, on GET /auth/me, on
\* the token-protected wish and user endpoints and on POST /auth/refresh.
C8_DeletedAccount401 ==
    [][ Served /\ response'.token # <<>> /\ OutlivedAccount(response'.token[1]) =>
            response'.status = 401 ]_vars

\* what the code keeps of C8: the same on every route behind the
\* get_current_user dependency
DeletedAccount401BehindDependency ==
    [][ /\ Served
        /\ response'.token # <<>>
        /\ OutlivedAccount(response'.token[1])
        /\ response'.request.path # "/api/v1/auth/refresh"
        => /\ response'.status = 401
           /\ response'.body.detail = "Could not validate credentials" ]_vars

\* POST /auth/refresh with the live token of a deleted account got a 404
RefreshAnswers404 ==
    /\ response.request = Client("POST", "/api/v1/auth/refresh")
    /\ response.token # <<>>
    /\ OutlivedAccount(response.token[1])
    /\ response.status = 404
    /\ response.body.code = "not_found"

\* C9: every response with status >= 400 carries a non-empty
\* correlation_id, and the correlation id of a request is none that an
\* earlier request got.
C9_CorrelationId ==
    [][ Served =>
            /\ response'.status >= 400 =>
                  /\ "correlation_id" \in response'.body.fields
                  /\ response'.body.correlation_id # <<>>
            /\ response'.correlation_id \notin {uuid4(n) : n \in 1..uuid_draws}
      ]_vars

\* what the code keeps of C9: every error response but the bare
\* {"detail": ...} of the router's own errors (no route, wrong method)
\* carries the correlation id of its request
CorrelationIdOnRoutedErrors ==
    [][ Served /\ response'.status >= 400 /\ response'.body.fields # {"detail"} =>
            /\ response'.body.fields = EnvelopeFields
            /\ response'.body.correlation_id = response'.correlation_id
            /\ response'.correlation_id \notin {uuid4(n) : n \in 1..uuid_draws}
      ]_vars

\* a request for a path without a route got a 404 without correlation_id
NoRouteWithoutCorrelationId ==
    /\ response.request = Client("GET", "/nosuch")
    /\ response.status = 404
    /\ response.body.fields = {"detail"}

\* C10: every response with status >= 400 has the fields type, title,
\* status, detail, error with code and message, correlation_id and
\* timestamp, whichever layer rendered it, and its type names its error
\* kind: two error responses of different status do not share a type.
C10_OneEnvelope ==
    [][ Served /\ response'.status >= 400 =>
            /\ response'.body.fields = EnvelopeFields
            /\ {"code", "message"} \subseteq response'.body.error
            /\ response.status >= 400 /\ response.status # response'.status =>
                  response.body.type # response'.body.type
      ]_vars

\* a 404 raised by a handler has the type of every other handler-raised
\* error
WishNotFoundGenericType ==
    /\ response.request = Client("GET", "/api/v1/wishes/{wish_id}")
    /\ response.status = 404
    /\ response.body.type = RFC7807_TYPE
    /\ response.body.code = "http_error"

----------------------------------------------------------------------------
(* Claims about the escaping of search terms, under SpecLike *)

\* what one character of the term becomes
EscapedChar(c) ==
    IF c = "\\" THEN <<"\\", "\\">>
    ELSE IF c \in {"%", "_", "[", "]"} THEN <<"\\", c>>
    ELSE <<c>>

RECURSIVE Unescape(_)
\* read from the left, a backslash stands for the character after it
Unescape(e) ==
    IF e = <<>> THEN <<>>
    ELSE IF Head(e) = "\\" /\ Len(e) >= 2 THEN <<e[2]>> \o Unescape(Tail(Tail(e)))
    ELSE <<Head(e)>> \o Unescape(Tail(e))

RECURSIVE BareWildcard(_)
\* read from the left, a %, _, [ or ] stands without a backslash before it,
\* or a backslash stands at the end with nothing to escape
BareWildcard(e) ==
    IF e = <<>> THEN FALSE
    ELSE IF Head(e) = "\\" THEN Len(e) < 2 \/ BareWildcard(Tail(Tail(e)))
    ELSE Head(e) \in {"%", "_", "[", "]"} \/ BareWildcard(Tail(e))

\* C21: escape_like_pattern(s) is s with every backslash doubled and one
\* backslash put before every %, _, [ and ], nothing else changed: the
\* result has no unescaped wildcard, s is recovered by unescaping it, and
\* the pattern search_by_title builds from it matches a title exactly when
\* the title contains s, letters compared without case.
C21_LikeEscaping ==
    validated.op = "escape_like_pattern" =>
        LET s == validated.input[1]
            e == validated.value[1]
        IN /\ e = Concat([i \in 1..Len(s) |-> EscapedChar(s[i])])
           /\ ~ BareWildcard(e)
           /\ Unescape(e) = s
           /\ \A title \in SearchStrings :
                 ilike(title, e) <=> Contains(lower(s), lower(title))

\* a term with a backslash right before a percent sign was escaped: both
\* characters got a backslash of their own
C21_Witness ==
    /\ validated.op = "escape_like_pattern"
    /\ Contains(<<"\\", "%">>, validated.input[1])
    /\ Contains(<<"\\", "\\", "\\", "%">>, validated.value[1])

----------------------------------------------------------------------------
(* Claims about the validator of title and description, under SpecSanitize *)

\* pattern stands in s from position i on, letters compared without case
OccursAt(pattern, s, i) ==
    /\ i + Len(pattern) - 1 <= Len(s)
    /\ \A k \in 1..Len(pattern) : lower(<<s[i + k - 1]>>) = <<pattern[k]>>

Dangerous(s) ==
    \E pattern \in { <<"<", "s", "c", "r", "i", "p", "t">>,
                      <<"j", "a", "v", "a", "s", "c", "r", "i", "p", "t", ":">>,
                      <<"o", "n", "e", "r", "r", "o", "r", "=">>,
                      <<"o", "n", "c", "l", "i", "c", "k", "=">> } :
        \E i \in 1..Len(s) : OccursAt(pattern, s, i)

\* t is s without its leading and trailing whitespace, nothing else changed
Trimmed(s, t) ==
    \E a \in 1..(Len(s) + 1), b \in 0..Len(s) :
        /\ t = SubSeq(s, a, b)
        /\ \A i \in 1..Len(s) : i < a \/ i > b => s[i] \in {" ", "\t", "\n"}
        /\ t # <<>> => t[1] \notin {" ", "\t", "\n"} /\ t[Len(t)] \notin {" ", "\t", "\n"}

\* C19: the validator rejects a value iff its lower-cased text contains
\* '<script', 'javascript:', 'onerror=' or 'onclick='; every other value is
\* accepted and comes out with its leading and trailing whitespace removed
\* and nothing else changed (None comes out as None).
C19_DangerousMarkup ==
    validated.op = "sanitize_html" =>
        IF validated.input = <<>>
        THEN ~ validated.error /\ validated.value = <<>>
        ELSE /\ validated.error <=> Dangerous(validated.input[1])
             /\ ~ validated.error =>
                   /\ Len(validated.value) = 1
                   /\ Trimmed(validated.input[1], validated.value[1])

\* a value with leading whitespace and a pattern written in capitals was
\* rejected
C19_Witness ==
    /\ validated.op = "sanitize_html"
    /\ validated.error
    /\ validated.input # <<>>
    /\ Head(validated.input[1]) \in Whitespace
    /\ ~ Contains(<<"s", "c", "r", "i", "p", "t">>, validated.input[1])
    /\ Contains(<<"S", "C", "R", "I", "P", "T">>, validated.input[1])

----------------------------------------------------------------------------
(* Claims about the rotation of the secret, under SpecRotation *)

\* C16: with a previous secret configured, verification accepts an
\* unexpired token signed with the current secret or with the previous one,
\* and every token issued is signed with the current secret.
C16_SecretRotation ==
    /\ \A token \in issued : token.key = "current-secret"
    /\ checked.op = "check" =>
          LET token == checked.token[1]
          IN /\ token.alg = "HS256"
             /\ token.key \in {"current-secret", "previous-secret"}
             /\ checked.at < token.exp
             => checked.verify = Ok

\* what the codec keeps of C16: issuance signs with the current secret, and
\* verification accepts exactly the unexpired tokens of the current secret
CurrentSecretOnly ==
    /\ \A token \in issued : token.key = "current-secret"
    /\ checked.op = "check" =>
          LET token == checked.token[1]
          IN /\ token.alg = "HS256" /\ token.key = "current-secret"
                /\ checked.at < token.exp => checked.verify = Ok
             /\ checked.verify = Ok => token.key = "current-secret"

\* an unexpired token signed with the previous secret was rejected
PreviousSecretRejected ==
    /\ checked.op = "check"
    /\ checked.token[1] \in Retired
    /\ checked.at < checked.token[1].exp
    /\ checked.verify = UnauthorizedError("Invalid token")

----------------------------------------------------------------------------
(* Claims about the correlation id of a request, under SpecHttp *)

\* the response carries the id in its body, or has a header for it
Attached(resp) ==
    \/ /\ "correlation_id" \in resp.body.fields
       /\ resp.body.correlation_id = resp.correlation_id
    \/ \E h \in resp.headers : h[1] \in {"X-Correlation-ID", "X-Request-ID"}

\* C17: the correlation id of a request is the one drawn at the entry of
\* the pipeline, before the limiter and the handler, stays that one, and
\* is attached to the response of the request, successful or failed.
C17_CorrelationIdAttached ==
    [][ Served =>
            /\ response'.correlation_id = uuid4(uuid_draws')
            /\ Attached(response') ]_vars

\* what the code keeps of C17: one id per request, drawn before the
\* limiter, so that the limiter's own 429 carries it as every other
\* enveloped error does
CorrelationIdDrawnAtEntry ==
    [][ Served =>
            /\ response'.correlation_id = uuid4(uuid_draws')
            /\ response'.status = 429 \/ response'.body.fields = EnvelopeFields
                  => Attached(response') ]_vars

\* a request was answered 200 and its response carries no correlation id
SuccessWithoutCorrelationId ==
    /\ response.op = "serve"
    /\ response.status = 200
    /\ response.correlation_id # <<>>
    /\ ~ Attached(response)

----------------------------------------------------------------------------
(* Claims about refresh, under SpecHttp *)

Refreshed(token) == POST_auth_refresh(<<token>>)

\* the token is expired, or is not signed with the service's key and
\* algorithm, or carries no numeric sub
InvalidToken(token) ==
    \/ token.exp < now
    \/ token.key # "current-secret" \/ token.alg # "HS256"
    \/ token.sub = <<>> \/ ~ IsNumeric(token.sub[1])

\* C14: POST /auth/refresh answers 200 exactly when the current user can be
\* resolved from the token sent, and then hands out one token for the same
\* user id whose exp is the time of the refresh plus the configured 30
\* minutes; an expired or invalid token is answered 401 and nothing is
\* issued; no other answer issues a token either.
C14_Refresh ==
    [][ \A token \in issued \cup Forgeries :
            Refreshed(token) =>
                LET resolved == AuthService_get_current_user(users, token, now)
                    Reissue(t) == /\ t.sub = token.sub
                                  /\ int(t.sub[1]) = resolved.user_id
                                  /\ t.exp = now + 30 * 60
                                  /\ t.key = "current-secret" /\ t.alg = "HS256"
                IN /\ (response'.status = 200) <=> (resolved.error = Ok)
                   /\ response'.status = 200 =>
                         /\ issued \subseteq issued'
                         /\ \E t \in issued' : Reissue(t)
                         /\ \A t \in issued' \ issued : Reissue(t)
                   /\ InvalidToken(token) =>
                         response'.status = 401 /\ issued' = issued
                   /\ response'.status # 200 => issued' = issued
      ]_vars

\* a token issued earlier was refreshed after the clock moved: the answer is
\* 200 and a token with the new exp is in circulation next to the old one
C14_Witness ==
    /\ response.request = Client("POST", "/api/v1/auth/refresh")
    /\ response.status = 200
    /\ response.token # <<>>
    /\ response.token[1].exp < now + 30 * 60
    /\ \E t \in issued : t.sub = response.token[1].sub /\ t.exp = now + 30 * 60

----------------------------------------------------------------------------
(* Claims about sessions, under SpecSession *)

\* C15: while the account it was issued to exists and its exp has not
\* passed, every token the service issued authenticates that account,
\* whatever requests (logout, profile changes, logins, refreshes) were
\* served since it was issued.
C15_NoRevocation ==
    \A token \in issued :
        token.ghost.id \in DOMAIN users /\ now <= token.exp =>
            LET dep == get_current_user(users, <<token>>, now)
            IN dep.outcome = Returned /\ dep.user_id = token.ghost.id

\* a token is in circulation whose holder has since logged out, changed
\* username and password, and the token has not reached its exp
C15_Witness ==
    /\ response.request = Client("POST", "/api/v1/auth/logout")
    /\ response.status = 200
    /\ \E token \in issued :
          /\ response.token = <<token>>
          /\ now <= token.exp /\ token.ghost.iat < now
          /\ token.ghost.id \in DOMAIN users
          /\ users[token.ghost.id].username # token.username
          /\ users[token.ghost.id].hashed_password # InitUsers[token.ghost.id].hashed_password

----------------------------------------------------------------------------
(* Claims about the scope of the limiter, under SpecScope *)

LoginPost(request) ==
    /\ request.method = "POST"
    /\ request.path = "/api/v1/auth/login" \/ request.path = "/auth/login"

Dispatched(request) ==
    \/ \E c \in ScopeCredentials : dispatch(request, c.username, c.password)
    \/ dispatch_passes(request)

\* C13: the limiter acts only on a POST to /api/v1/auth/login or /auth/login.
\* Every other request goes to call_next (it is never answered by the
\* limiter) and leaves attempts, failed counts and blocks unchanged; two
\* login POSTs of one client through different aliases act on the same state
\* in the same way.
C13_LimiterScope ==
    [][ /\ \A request \in AllRequests :
              Dispatched(request) =>
                  IF LoginPost(request)
                  THEN /\ last'.op = "login"
                       /\ ~ last'.handled => last'.status = 429
                  ELSE /\ last'.handled /\ last'.status # 429
                       /\ UNCHANGED limiterVars
        /\ \A q1, q2 \in AllRequests, c \in ScopeCredentials :
              /\ LoginPost(q1) /\ LoginPost(q2)
              /\ _get_client_ip(q1) = _get_client_ip(q2)
              => (dispatch(q1, c.username, c.password)
                    <=> dispatch(q2, c.username, c.password))
      ]_vars

\* a request that is not a login POST went through while the limiter held
\* attempts of its client and a block on it
C13_Witness ==
    /\ last.op = "pass"
    /\ last.was_blocked
    /\ login_attempts[last.ip] # <<>>

----------------------------------------------------------------------------
(* Claims about the wish routes, under SpecWish *)

\* credentials resolve to a user now
Authenticated(credentials) ==
    get_current_user(users, credentials, now).outcome = Returned

\* C11: in production mode, when handling a request raises an unexpected
\* exception (here: the insert of create_wish fails, or the response model
\* rejects the stored row), the response detail is the generic
\* internal-server-error text and no text of the body is the exception's.
C11_NoLeakInProduction ==
    [][ \A credentials \in WishBearers, payload \in WishPayloads, fault \in BOOLEAN :
            /\ Authenticated(credentials)
            /\ ~ WishCreate(payload).error
            /\ fault \/ Len(WishCreate(payload).title[1]) < 1
            /\ POST_wishes(credentials, payload, fault, "production")
            => /\ response'.body.detail = "Internal server error"
               /\ response'.body.detail \notin
                      {SQLAlchemyError.detail, ResponseValidationText}
               /\ response'.body.message \notin
                      {SQLAlchemyError.detail, ResponseValidationText}
      ]_vars

\* create_wish answered 400 with the text of the exception as detail
WishCreateLeaks ==
    /\ response.request = Client("POST", "/api/v1/wishes")
    /\ response.status = 400
    /\ response.body.detail = SQLAlchemyError.detail
    /\ response.body.message = SQLAlchemyError.detail

\* what the code keeps of C11, checked under SpecHttp: an exception that no
\* route catches, here the failed user query of the login route, is
\* answered in production with the generic text
LoginNoLeakInProduction ==
    [][ \A body \in LoginBodies :
            body # <<>> /\ POST_auth_login(body, TRUE, "production") /\ last'.handled
            => /\ response'.status = 500
               /\ response'.body.detail = "Internal server error"
               /\ response'.body.message = "Internal server error" ]_vars

----------------------------------------------------------------------------
(* Claims about the texts of an error, under SpecMask *)

Unmasked(text) == \E i \in 1..Len(text) : text[i].kind \in {"email", "jwt"}

\* C12: no log line and no detail / error.message of a response holds an
\* unmasked e-mail address or token-shaped string of the original message:
\* both are the message after the masking pass.
C12_MaskedBeforeOutput ==
    report.op # "none" =>
        /\ \A i \in 1..Len(report.log) : ~ Unmasked(report.log[i])
        /\ ~ Unmasked(report.detail)

\* what the code keeps of C12: the log line of an ApiError or of an
\* HTTPException that reaches the middleware is the masked message
MaskedLogLine ==
    report.op \in {"ApiError", "HTTPException"} =>
        /\ Len(report.log) = 1
        /\ ~ Unmasked(report.log[1])
        /\ SubSeq(report.log[1], 2, Len(report.log[1])) = mask_pii_in_string(report.text)

\* an error whose message holds an e-mail address was rendered with the
\* address in the detail of the response
UnmaskedDetail ==
    /\ report.op = "handler"
    /\ \E i \in 1..Len(report.text) : report.text[i].kind = "email"
    /\ report.detail = report.text


Caller(credentials) == get_current_user(users, credentials, now).user_id

\* C18: a get, update or delete by an authenticated user on a wish that
\* belongs to another user answers 404 and leaves the table as it is (an
\* update whose body does not validate is answered 422 before the lookup),
\* and the rows a list or a search returns all carry the caller's user_id.
C18_WishIsolation ==
    [][ Served /\ Authenticated(response'.token) =>
          LET credentials == response'.token
              Foreign == {i \in DOMAIN wishes : wishes[i].user_id # Caller(credentials)}
          IN /\ response'.request.method = "GET" =>
                  /\ \A wish_id \in Foreign :
                        GET_wishes_id(credentials, wish_id) => response'.status = 404
                  /\ \A search \in SearchTerms :
                        GET_wishes(credentials, search) =>
                            \A row \in response'.body.data :
                                row.user_id = Caller(credentials)
             /\ response'.request.method = "DELETE" =>
                  \A wish_id \in Foreign :
                      DELETE_wishes_id(credentials, wish_id) =>
                          response'.status = 404 /\ wishes' = wishes
             /\ response'.request.method = "PATCH" =>
                  \A wish_id \in Foreign, payload \in WishPayloads :
                      PATCH_wishes_id(credentials, wish_id, payload) =>
                          /\ wishes' = wishes
                          /\ response'.status =
                                IF WishUpdate(payload).error THEN 422 ELSE 404
      ]_vars

\* every wish id is taken, wish 2 is still the other user's as it was at
\* the start, and the update that user 1 asked for was answered 404
C18_Witness ==
    /\ response.request = Client("PATCH", "/api/v1/wishes/{wish_id}")
    /\ response.status = 404
    /\ response.token # <<>> /\ response.token[1].ghost.id = 1
    /\ DOMAIN wishes = 1..MaxWishId
    /\ \A i \in DOMAIN wishes : i # 2 => wishes[i].user_id = 1
    /\ wishes[2] = InitWishes[2]


\* the request carried a body with a key outside the schema: a wish
\* creation, a wish update or a login
ExtraKeySent(credentials) ==
    \/ \E payload \in WishPayloads, f \in WishFaults :
          payload.extra /\ POST_wishes(credentials, payload, f[1], f[2])
    \/ \E payload \in WishPayloads, wish_id \in 1..MaxWishId :
          payload.extra /\ PATCH_wishes_id(credentials, wish_id, payload)
    \/ credentials = <<>> /\ POST_auth_login(<<>>, FALSE, "development")

\* C20: a wish creation, wish update or login whose body holds a key
\* outside the schema is answered 422, and the table of wishes is the same
\* before and after the request.
C20_StrictSchema ==
    [][ Served /\ response'.request.method \in {"POST", "PATCH"}
        /\ ExtraKeySent(response'.token)
        => response'.status = 422 /\ wishes' = wishes ]_vars

\* C20 as the code has it: such a body is never accepted and the table of
\* wishes stays as it is; the answer is 422 when the request gets as far as
\* the validation of the body, 401 or 403 when a wish route is asked without
\* a valid bearer token, 429 when the limiter turns the login away.
C20_StrictSchemaBehindGates ==
    [][ Served /\ response'.request.method \in {"POST", "PATCH"}
        /\ ExtraKeySent(response'.token)
        => /\ wishes' = wishes
           /\ response'.status \in {401, 403, 422, 429}
           /\ response'.status = 422 <=>
                 IF response'.request.path \in LoginPaths
                 THEN last'.handled
                 ELSE Authenticated(response'.token)
           /\ response'.status = 429 => response'.request.path \in LoginPaths
           /\ response'.status \in {401, 403} =>
                 response'.request.path \notin LoginPaths ]_vars

\* a wish creation of an authenticated user was answered 422 for its extra
\* key, and the table is the one of the start
C20_Witness ==
    /\ response.request = Client("POST", "/api/v1/wishes")
    /\ response.token # <<>>
    /\ response.status = 422
    /\ response.body.message = ExtraForbidden.detail
    /\ wishes = InitWishes

\* the same request without a bearer token was answered 403
ExtraKeyUnauthenticated ==
    /\ response.request = Client("POST", "/api/v1/wishes")
    /\ response.token = <<>>
    /\ response.status = 403
    /\ wishes = InitWishes

-----------------------------------------------------------------------------
(* Claims about password hashing, under SpecPassword.  validated.input is  *)
(* <<password, probe>> and, once Verify has run, <<password, probe, hash>>. *)

Verified == validated.op = "verify_password"
\* the hash verified was made by hash_password from the password drawn
OwnHash == Verified /\ validated.input[3] = hash_password(validated.input[1])

\* C22: for every password p of 1 to 72 characters,
\* verify_password(p, hash_password(p)) returns True and
\* verify_password(p + "x", hash_password(p)) returns False; neither raises.
C22_PasswordRoundTrip ==
    OwnHash /\ Len(validated.input[1]) \in 1..PASSWORD_LIMIT
    => /\ ~ validated.error
       /\ validated.value[1] <=> validated.input[2] = validated.input[1]

\* the password of 72 characters followed by "x" was refused against the
\* hash of the password
C22_Witness ==
    /\ OwnHash
    /\ Len(validated.input[1]) = PASSWORD_LIMIT
    /\ validated.input[2] = validated.input[1] \o <<"x">>
    /\ ~ validated.error
    /\ ~ validated.value[1]

\* the password of 72 characters itself was accepted
RoundTripAtLimit ==
    /\ OwnHash
    /\ Len(validated.input[1]) = PASSWORD_LIMIT
    /\ validated.input[2] = validated.input[1]
    /\ validated.value[1]

\* C23: for every stored hash string that is no well-formed hash of the
\* strong or of the legacy scheme, verify_password returns False and raises
\* nothing (so that login answers 401 and not an internal error).
C23_CorruptHashIsFalse ==
    Verified /\ validated.input[3] \in CorruptHashes
    => ~ validated.error /\ ~ validated.value[1]

\* verify_password left by an exception on a corrupt hash
CorruptHashRaises ==
    /\ Verified
    /\ validated.input[3] \in CorruptHashes
    /\ validated.error

\* a well-formed legacy hash is verified by the fallback without raising
LegacyHashVerified ==
    Verified /\ validated.input[3] = LegacyHash(validated.input[1])
    => /\ ~ validated.error
       /\ validated.value[1] <=> validated.input[2] = validated.input[1]

\* C27: for every password the schemas accept (8 to 128 characters),
\* verify_password(p, hash_password(p)) returns True.
C27_LongPasswordRoundTrip ==
    /\ OwnHash
    /\ Len(validated.input[1]) \in PASSWORD_MIN..PASSWORD_MAX
    /\ validated.input[2] = validated.input[1]
    => ~ validated.error /\ validated.value[1]

\* a password of more than 72 characters was refused against its own hash
LongPasswordRefused ==
    /\ OwnHash
    /\ Len(validated.input[1]) \in (PASSWORD_LIMIT + 1)..PASSWORD_MAX
    /\ validated.input[2] = validated.input[1]
    /\ ~ validated.value[1]

-----------------------------------------------------------------------------
(* Claims about the limiter after a block, under Spec. *)

\* C24: once a block has expired and the block check has cleared it, the IP
\* has failed_count 0, so it is blocked again only by the fifth further
\* recorded failure and not by the next single one.
C24_ClearAfterExpiry ==
    [][\A ip \in IPs :
        /\ (LoginStep(ip) /\ ip \in blocked_ips /\ ip \notin blocked_ips') =>
                failed_attempts'[ip] = 0
        /\ (last'.op = "failed" /\ last'.ip = ip
               /\ ip \notin blocked_ips /\ ip \in blocked_ips') =>
                failed_attempts'[ip] = BLOCK_THRESHOLD]_vars

\* the block check has just cleared an expired block and the count of
\* failures is still the one that set the block
ExpiredBlockKeepsCount ==
    /\ last.op = "login" /\ last.was_blocked
    /\ last.ip \notin blocked_ips
    /\ last.ip \notin DOMAIN blocked_until
    /\ failed_attempts[last.ip] = BLOCK_THRESHOLD

\* in that state the test of record_failed_attempt on the count after one
\* more failure is already true: the next single failure blocks the IP again
NextFailureBlocks ==
    /\ ExpiredBlockKeepsCount
    /\ failed_attempts[last.ip] + 1 >= BLOCK_THRESHOLD

\* the IP sent no login POST during the last 60 s
Silent(ip) ==
    \A i \in 1..Len(login_attempts[ip]) :
        now - login_attempts[ip][i] >= WINDOW_SECONDS

\* C25: a login POST of an IP that is not blocked and sent no login POST
\* for at least 60 s is admitted to the handler, and starts a new window,
\* however many earlier requests the window held or were rejected.
C25_WindowRecovery ==
    [][\A ip \in IPs :
        (LoginStep(ip) /\ ~ BlockInForce(ip) /\ Silent(ip)) =>
            /\ last'.handled
            /\ last'.status # 429
            /\ login_attempts'[ip] = <<now>>]_vars

\* a login POST was admitted after the silence, from an IP whose window was
\* full of attempts (the last of them rejected) before
C25_Witness ==
    /\ last.op = "login" /\ last.handled
    /\ last.dropped >= max_failures
    /\ login_attempts[last.ip] = <<now>>

\* C26: in every reachable state of the limiter the blocked IPs are exactly
\* the IPs with a blocked_until entry, and every step adds an IP to both or
\* removes it from both.
C26_BlockBookkeeping ==
    /\ [](blocked_ips = DOMAIN blocked_until)
    /\ [][\A ip \in IPs :
            (ip \in blocked_ips' <=> ip \in blocked_ips)
            <=> (ip \in DOMAIN blocked_until' <=> ip \in DOMAIN blocked_until)]_vars

\* the block check has removed the expired block of one IP from both, while
\* the other IP, blocked later, is still in both
C26_Witness ==
    /\ last.op = "login" /\ last.was_blocked
    /\ last.ip \notin blocked_ips
    /\ last.ip \notin DOMAIN blocked_until
    /\ \E o \in IPs \ {last.ip} : o \in blocked_ips /\ o \in DOMAIN blocked_until

\* nothing the limiter holds about the IP changes in the step
LimiterUntouched(o) ==
    /\ login_attempts'[o] = login_attempts[o]
    /\ failed_attempts'[o] = failed_attempts[o]
    /\ o \in blocked_ips' <=> o \in blocked_ips
    /\ DictGet(blocked_until', o, -1) = DictGet(blocked_until, o, -1)

KeyIsolation ==
    [][\A ip \in IPs :
        (last'.op \in {"login", "failed", "success"} /\ last'.ip = ip)
        => \A o \in IPs \ {ip} : LimiterUntouched(o)]_vars

-----------------------------------------------------------------------------
(* Claims about the fields of stored wishes, under SpecWish. *)

\* C28: every title WishCreate or WishUpdate accepts has 1 to 200 characters
\* after sanitization (a title of whitespace only is rejected), so no wish
\* is ever stored with an empty title.
C28_StoredTitlesNonEmpty ==
    \A i \in DOMAIN wishes : Len(wishes[i].title) \in 1..TITLE_MAX

\* the schemas accept the title " " and hand on the empty title
WhitespaceTitleAccepted ==
    \E payload \in WishPayloads :
        /\ payload.title = <<<<" ">>>>
        /\ ~ WishCreate(payload).error /\ WishCreate(payload).title = <<<<>>>>
        /\ ~ WishUpdate(payload).error /\ WishUpdate(payload).title = <<<<>>>>

\* a wish is stored with the empty title, after a request of an
\* authenticated user that sent the title " "
EmptyTitleStored ==
    /\ response.request.method \in {"POST", "PATCH"}
    /\ response.token # <<>>
    /\ \E i \in DOMAIN wishes : wishes[i].title = <<>>
    /\ WhitespaceTitleAccepted

-----------------------------------------------------------------------------
(* Claims about the price of a wish, under SpecPrice. *)

\* the price the client submitted last: that of the patch when it sent one
\* and the update was done, else that of the creation
SubmittedPrice ==
    IF Len(validated.input) = 4 /\ validated.input[2].price # <<>>
    THEN validated.input[2].price
    ELSE validated.input[1].price

\* C29: a wish created or updated with a valid price p is stored with
\* price p, and every later read of the wish returns price p.
C29_PriceKept ==
    /\ validated.op \in {"create_wish", "update_wish"} /\ ~ validated.error
          => validated.value[1].price = SubmittedPrice
    /\ validated.op = "get_wish"
          => /\ validated.value[1].price = SubmittedPrice
             /\ validated.value[2].price = SubmittedPrice

\* the title and the description submitted are stored and returned
TitleAndDescriptionKept ==
    validated.op = "get_wish" =>
        LET created == WishCreate_fields(validated.input[1])
            patched == WishUpdate_fields(validated.input[2])
            updated == Len(validated.input) = 4
            title == IF updated /\ patched.title # <<>> THEN patched.title[1]
                     ELSE created.title[1]
            description == IF updated /\ patched.description # <<>>
                           THEN patched.description ELSE created.description
        IN /\ validated.value[2].title = title
           /\ validated.value[2].description = description

\* a wish was created with the price 99.99 and is stored without a price
PriceDropped ==
    /\ validated.op = "create_wish" /\ ~ validated.error
    /\ validated.input[1].price = <<Dec(FALSE, Digits(2), Digits(2))>>
    /\ validated.value[1].price = <<>>

====
